---- MODULE Spec2Model ----
(***************************************************************************)
(* Highlight selection and keyframe extraction of AI-CUT.                  *)
(*                                                                         *)
(*   core/highlight_selector.py   HighlightSelector                        *)
(*   core/keyframe_extractor.py   KeyframeExtractor                        *)
(*   core/multimodal_fusion.py    MultimodalFusion                         *)
(*                                                                         *)
(* Python floats are modelled as exact rationals <<num, den>> (den > 0,    *)
(* lowest terms), so that times, durations and scores keep the values the  *)
(* source computes; round(x, 2) is round-half-even on the exact value.     *)
(* A dict is a function from the keys it holds; a missing key is a key     *)
(* outside its DOMAIN, and reading it raises KeyError.                     *)
(***************************************************************************)
EXTENDS Integers, Sequences, FiniteSets, TLC

(***************************************************************************)
(* Rational arithmetic (the float operations the source uses).             *)
(***************************************************************************)
Abs(n) == IF n < 0 THEN -n ELSE n

RECURSIVE GCD(_, _)
GCD(a, b) == IF b = 0 THEN a ELSE GCD(b, a % b)

\* the rational n/d in lowest terms with a positive denominator
Q(n, d) ==
    LET s == IF d < 0 THEN -1 ELSE 1
        g == GCD(Abs(n), Abs(d))
    IN  <<(s * n) \div g, (s * d) \div g>>

I(n) == <<n, 1>>

Num(q) == q[1]
Den(q) == q[2]

RAdd(a, b) == Q(Num(a) * Den(b) + Num(b) * Den(a), Den(a) * Den(b))
RSub(a, b) == Q(Num(a) * Den(b) - Num(b) * Den(a), Den(a) * Den(b))
RMul(a, b) == Q(Num(a) * Num(b), Den(a) * Den(b))
RDiv(a, b) == Q(Num(a) * Den(b), Den(a) * Num(b))
RLt(a, b)  == Num(a) * Den(b) < Num(b) * Den(a)
RLe(a, b)  == Num(a) * Den(b) <= Num(b) * Den(a)
RMin(a, b) == IF RLe(a, b) THEN a ELSE b
RMax(a, b) == IF RLe(a, b) THEN b ELSE a

\* floor of a rational
RFloor(q) == Num(q) \div Den(q)

\* int(x): truncation toward zero
RTrunc(q) == IF Num(q) >= 0 THEN Num(q) \div Den(q) ELSE -((-Num(q)) \div Den(q))

\* nearest integer, ties to the even one
RoundHalfEven(q) ==
    LET f == RFloor(q)
        r == Num(q) - f * Den(q)
    IN  IF 2 * r < Den(q) THEN f
        ELSE IF 2 * r > Den(q) THEN f + 1
        ELSE IF f % 2 = 0 THEN f ELSE f + 1

\* round(x, 2)
Round2(q) == Q(RoundHalfEven(RMul(q, I(100))), 100)

(***************************************************************************)
(* Dicts, lists and strings.                                               *)
(***************************************************************************)
Has(d, k) == k \in DOMAIN d

\* d[key] = val on a copy of d
With(d, key, val) == [k \in (DOMAIN d) \cup {key} |-> IF k = key THEN val ELSE d[k]]

\* a string of n copies of the character c
Rep(c, n) == [j \in 1..n |-> c]

\* sep.join(texts)
RECURSIVE Join(_, _)
Join(texts, sep) ==
    IF Len(texts) = 0 THEN <<>>
    ELSE IF Len(texts) = 1 THEN texts[1]
    ELSE texts[1] \o sep \o Join(Tail(texts), sep)

\* [f(x) for x in seq if p(x)], in list order
RECURSIVE SelectIdx(_, _, _)
SelectIdx(seq, keep, k) ==
    IF k > Len(seq) THEN <<>>
    ELSE (IF k \in keep THEN <<seq[k]>> ELSE <<>>) \o SelectIdx(seq, keep, k + 1)

\* all sequences over S of length 0..n
SeqsUpTo(S, n) == UNION {[1..m -> S] : m \in 0..n}

RECURSIVE SumQ(_)
SumQ(seq) == IF Len(seq) = 0 THEN I(0) ELSE RAdd(seq[1], SumQ(Tail(seq)))

(***************************************************************************)
(* HighlightSelector: enrichment and the dialogue-only score.              *)
(***************************************************************************)

\* mutant: plain containment, the rule of MultimodalFusion._get_dialogue_in_range
SubtitleContained(sub, start, end) ==
    RLe(start, sub.start) /\ RLe(sub.end, end)

\* the condition of the list comprehension of _add_dialogue_to_scene
SubtitleInScene(sub, start, end) ==
    \/ (RLe(start, sub.start) /\ RLt(sub.start, end))
    \/ (RLt(start, sub.end) /\ RLe(sub.end, end))
    \/ (RLe(sub.start, start) /\ RLe(end, sub.end))

\* evaluating that condition raises KeyError: sub['start'] is always read,
\* sub['end'] only when the first disjunct is false
SubtitleInSceneRaises(sub, start, end) ==
    \/ ~Has(sub, "start")
    \/ (~(RLe(start, sub.start) /\ RLt(sub.start, end)) /\ ~Has(sub, "end"))

\* the indices of the subtitles the comprehension keeps
SceneSubtitleIdx(subs, start, end) ==
    {k \in 1..Len(subs) : SubtitleInScene(subs[k], start, end)}

\* mutant: a scene that no subtitle overlaps counts as a failure too
AddDialogueRaisesWhenSilent(scene, subs) ==
    \/ ~Has(scene, "start_time")
    \/ ~Has(scene, "end_time")
    \/ \E k \in 1..Len(subs) :
          SubtitleInSceneRaises(subs[k], scene.start_time, scene.end_time)
    \/ SceneSubtitleIdx(subs, scene.start_time, scene.end_time) = {}
    \/ \E k \in SceneSubtitleIdx(subs, scene.start_time, scene.end_time) :
          ~Has(subs[k], "text")

\* _add_dialogue_to_scene raises KeyError
AddDialogueRaises(scene, subs) ==
    \/ ~Has(scene, "start_time")
    \/ ~Has(scene, "end_time")
    \/ \E k \in 1..Len(subs) :
          SubtitleInSceneRaises(subs[k], scene.start_time, scene.end_time)
    \/ \E k \in SceneSubtitleIdx(subs, scene.start_time, scene.end_time) :
          ~Has(subs[k], "text")

\* mutant: no copy, the keys are written into the caller's record
CallerSceneAliased(scene, scene_with_dialogue) == scene_with_dialogue

\* scene_with_dialogue = scene.copy(): dialogue, subtitle_count and
\* highlight_score are written to the copy, the caller's record is as before
CallerSceneAfter(scene, scene_with_dialogue) == scene

\* _add_dialogue_to_scene: a copy of the scene with dialogue and subtitle_count
AddDialogueToScene(scene, subs) ==
    LET keep           == SceneSubtitleIdx(subs, scene.start_time, scene.end_time)
        scene_subtitles == SelectIdx(subs, keep, 1)
        dialogue       == Join([k \in 1..Len(scene_subtitles) |-> scene_subtitles[k].text],
                               <<" ">>)
    IN  With(With(scene, "dialogue", dialogue), "subtitle_count", Len(scene_subtitles))

FullDensity == 8
SubtitlePoints == 20
IdealMin == 5
IdealMax == 15
LongPenalty == 3

\* dialogue_score of _calculate_highlight_score (0..100)
DialogueScore(dialogue_len, duration) ==
    IF dialogue_len > 0
    THEN LET dialogue_density == IF RLt(I(0), duration)
                                 THEN RDiv(I(dialogue_len), duration) ELSE I(0)
         IN  RMin(RMul(RDiv(dialogue_density, I(FullDensity)), I(100)), I(100))
    ELSE I(0)

\* subtitle_score of _calculate_highlight_score (0..100)
SubtitleScore(subtitle_count) ==
    IF subtitle_count > 0
    THEN I(IF subtitle_count * SubtitlePoints < 100 THEN subtitle_count * SubtitlePoints ELSE 100)
    ELSE I(0)

\* mutant: the falloff coefficient 5 of the multimodal scorer
DurationScoreSteep(duration) ==
    IF RLe(I(IdealMin), duration) /\ RLe(duration, I(IdealMax)) THEN I(100)
    ELSE IF RLt(duration, I(IdealMin)) THEN RMul(RDiv(duration, I(IdealMin)), I(100))
    ELSE RMax(I(0), RSub(I(100), RMul(RSub(duration, I(IdealMax)), I(5))))

\* duration_score of _calculate_highlight_score
DurationScore(duration) ==
    IF RLe(I(IdealMin), duration) /\ RLe(duration, I(IdealMax)) THEN I(100)
    ELSE IF RLt(duration, I(IdealMin)) THEN RMul(RDiv(duration, I(IdealMin)), I(100))
    ELSE RMax(I(0), RSub(I(100), RMul(RSub(duration, I(IdealMax)), I(LongPenalty))))

\* mutant: the weights of the dialogue and subtitle parts exchanged
WeightedScoreSwapped(dialogue_len, subtitle_count, duration) ==
    RAdd(RAdd(RMul(DialogueScore(dialogue_len, duration), Q(3, 10)),
              RMul(SubtitleScore(subtitle_count), Q(4, 10))),
         RMul(DurationScore(duration), Q(3, 10)))

\* the sum before rounding
WeightedScore(dialogue_len, subtitle_count, duration) ==
    RAdd(RAdd(RMul(DialogueScore(dialogue_len, duration), Q(4, 10)),
              RMul(SubtitleScore(subtitle_count), Q(3, 10))),
         RMul(DurationScore(duration), Q(3, 10)))

\* scene.get('dialogue', '') and scene.get('subtitle_count', 0)
GetDialogue(scene) == IF Has(scene, "dialogue") THEN scene.dialogue ELSE <<>>
GetSubtitleCount(scene) == IF Has(scene, "subtitle_count") THEN scene.subtitle_count ELSE 0

CalculateHighlightScoreRaises(scene) == ~Has(scene, "duration")

\* HighlightSelector._calculate_highlight_score
CalculateHighlightScore(scene) ==
    Round2(WeightedScore(Len(GetDialogue(scene)), GetSubtitleCount(scene), scene.duration))

(***************************************************************************)
(* MultimodalFusion._calculate_highlight_score.                            *)
(***************************************************************************)
FusionFullDensity == 10
FacePoints == 30
OcrPoints == 20
FusionLongPenalty == 5

\* the division by scene['duration'] raises ZeroDivisionError, its lookup KeyError
FusionScoreRaises(scene) ==
    \/ ~Has(scene, "duration")
    \/ Num(scene.duration) = 0

\* min(dialogue_len / scene['duration'] / 10 * 100, 100)
FusionDialogueScore(dialogue_len, duration) ==
    RMin(RMul(RDiv(RDiv(I(dialogue_len), duration), I(FusionFullDensity)), I(100)), I(100))

\* scene.get('visual', {}).get('motion_score', 0) * 100
FusionMotionScore(scene) ==
    LET visual == IF Has(scene, "visual") THEN scene.visual ELSE <<>>
        motion == IF Has(visual, "motion_score") THEN visual.motion_score ELSE I(0)
    IN  RMul(motion, I(100))

\* min(len(scene.get('faces', [])) * 30, 100)
FusionFaceScore(scene) ==
    LET face_count == IF Has(scene, "faces") THEN Len(scene.faces) ELSE 0
    IN  I(IF face_count * FacePoints < 100 THEN face_count * FacePoints ELSE 100)

\* min(len(scene.get('ocr', {}).get('texts', [])) * 20, 100)
FusionSpecialScore(scene) ==
    LET ocr       == IF Has(scene, "ocr") THEN scene.ocr ELSE <<>>
        ocr_count == IF Has(ocr, "texts") THEN Len(ocr.texts) ELSE 0
    IN  I(IF ocr_count * OcrPoints < 100 THEN ocr_count * OcrPoints ELSE 100)

\* mutant: the falloff of the dialogue-only scorer
FusionDurationScoreSlow(duration) ==
    IF RLe(I(IdealMin), duration) /\ RLe(duration, I(IdealMax)) THEN I(100)
    ELSE IF RLt(duration, I(IdealMin)) THEN RMul(RDiv(duration, I(IdealMin)), I(100))
    ELSE RMax(I(0), RSub(I(100), RMul(RSub(duration, I(IdealMax)), I(LongPenalty))))

\* duration_score of MultimodalFusion._calculate_highlight_score
FusionDurationScore(duration) ==
    IF RLe(I(5), duration) /\ RLe(duration, I(15)) THEN I(100)
    ELSE IF RLt(duration, I(5)) THEN RMul(RDiv(duration, I(5)), I(100))
    ELSE RMax(I(0), RSub(I(100), RMul(RSub(duration, I(15)), I(FusionLongPenalty))))

\* the locals of MultimodalFusion._calculate_highlight_score
FusionLocals(scene) ==
    [dialogue_score |-> FusionDialogueScore(Len(GetDialogue(scene)), scene.duration),
     motion_score   |-> FusionMotionScore(scene),
     face_score     |-> FusionFaceScore(scene),
     special_score  |-> FusionSpecialScore(scene),
     duration_score |-> FusionDurationScore(scene.duration)]

\* MultimodalFusion._calculate_highlight_score (not rounded)
FusionHighlightScore(scene) ==
    LET l == FusionLocals(scene)
    IN  RAdd(RAdd(RAdd(RAdd(RMul(l.dialogue_score, Q(3, 10)),
                            RMul(l.motion_score, Q(25, 100))),
                       RMul(l.face_score, Q(2, 10))),
                  RMul(l.special_score, Q(15, 100))),
             RMul(l.duration_score, Q(1, 10)))

\* the locals of HighlightSelector._calculate_highlight_score
SelectorLocals(scene) ==
    [dialogue_score |-> DialogueScore(Len(GetDialogue(scene)), scene.duration),
     subtitle_score |-> SubtitleScore(GetSubtitleCount(scene)),
     duration_score |-> DurationScore(scene.duration)]

(***************************************************************************)
(* MultimodalFusion.fuse_multimodal_data and its helpers.                  *)
(***************************************************************************)

\* the records of vision_results, ocr_results and face_results
Vision(ts, m) ==
    [timestamp |-> ts, clip_labels |-> <<"logo">>, blip2_caption |-> Rep("v", 3),
     motion_score |-> m]
Ocr(ts, texts) == [timestamp |-> ts, texts |-> [k \in 1..Len(texts) |-> [text |-> texts[k]]]]
Faces(ts, n) == [timestamp |-> ts, faces |-> [k \in 1..n |-> [name |-> "face"]]]

\* mutant: the end of the scene left out of the range
DataInRangeHalfOpen(item, start, end) ==
    RLe(start, item.timestamp) /\ RLt(item.timestamp, end)

\* the condition of _get_data_in_range: start <= item['timestamp'] <= end
DataInRange(item, start, end) ==
    RLe(start, item.timestamp) /\ RLe(item.timestamp, end)

\* MultimodalFusion._get_data_in_range
GetDataInRange(data_list, start, end) ==
    SelectIdx(data_list, {k \in 1..Len(data_list) : DataInRange(data_list[k], start, end)}, 1)

\* the condition of _get_dialogue_in_range: the span lies inside the scene
DialogueInRange(sub, start, end) ==
    RLe(start, sub.start) /\ RLe(sub.end, end)

\* MultimodalFusion._get_dialogue_in_range
GetDialogueInRange(subs, start, end) ==
    LET keep      == {k \in 1..Len(subs) : DialogueInRange(subs[k], start, end)}
        dialogues == SelectIdx(subs, keep, 1)
    IN  Join([k \in 1..Len(dialogues) |-> dialogues[k].text], <<" ">>)

\* MultimodalFusion._merge_vision_data: the middle item, with defaults
MergeVisionData(vision_data) ==
    IF Len(vision_data) = 0 THEN <<>>
    ELSE LET mid_frame == vision_data[(Len(vision_data) \div 2) + 1]
         IN  [clip_labels   |-> IF Has(mid_frame, "clip_labels")
                                THEN mid_frame.clip_labels ELSE <<>>,
              blip2_caption |-> IF Has(mid_frame, "blip2_caption")
                                THEN mid_frame.blip2_caption ELSE <<>>,
              motion_score  |-> IF Has(mid_frame, "motion_score")
                                THEN mid_frame.motion_score ELSE I(0)]

\* all_texts of _merge_ocr_data
RECURSIVE AllTexts(_, _)
AllTexts(ocr_data, k) ==
    IF k > Len(ocr_data) THEN <<>>
    ELSE LET texts == IF Has(ocr_data[k], "texts") THEN ocr_data[k].texts ELSE <<>>
         IN  [j \in 1..Len(texts) |-> texts[j].text] \o AllTexts(ocr_data, k + 1)

\* the lists that hold each element of S once
Orderings(S) ==
    {seq \in [1..Cardinality(S) -> S] : \A a, b \in 1..Cardinality(S) : a # b => seq[a] # seq[b]}

\* MultimodalFusion._merge_ocr_data: list(set(all_texts)), whose order the
\* interpreter picks; every order it may produce
MergeOcrData(ocr_data) ==
    LET all_texts == AllTexts(ocr_data, 1)
    IN  {[texts |-> unique_texts] :
            unique_texts \in Orderings({all_texts[k] : k \in 1..Len(all_texts)})}

\* MultimodalFusion._merge_face_data
RECURSIVE MergeFaceData(_)
MergeFaceData(face_data) ==
    IF Len(face_data) = 0 THEN <<>>
    ELSE (IF Has(face_data[1], "faces") THEN face_data[1].faces ELSE <<>>)
         \o MergeFaceData(Tail(face_data))

\* fused_scene before its score: {**scene, 'visual', 'ocr', 'faces', 'dialogue'}
FusedScene(scene, vision, ocr, faces, subs) ==
    LET start == scene.start_time
        end   == scene.end_time
    IN  With(With(With(With(scene,
            "visual", MergeVisionData(GetDataInRange(vision, start, end))),
            "ocr", ocr),
            "faces", MergeFaceData(GetDataInRange(faces, start, end))),
            "dialogue", GetDialogueInRange(subs, start, end))

(***************************************************************************)
(* Python's list.sort: stable.                                             *)
(***************************************************************************)

\* the sort orders the source uses: a precedes b under the sort's key
Precedes(order, a, b) ==
    CASE order = "score_desc"   -> RLt(b.highlight_score, a.highlight_score)
      [] order = "start_time"   -> RLt(a.start_time, b.start_time)
      [] order = "quality_desc" -> RLt(b.quality_score, a.quality_score)
      [] order = "time"         -> RLt(a.time, b.time)

\* x put into a sorted list, behind every element it does not precede
RECURSIVE InsertSorted(_, _, _)
InsertSorted(sorted, x, order) ==
    IF Len(sorted) = 0 THEN <<x>>
    ELSE IF Precedes(order, x, sorted[1]) THEN <<x>> \o sorted
    ELSE <<sorted[1]>> \o InsertSorted(Tail(sorted), x, order)

RECURSIVE StableSortFrom(_, _, _, _)
StableSortFrom(seq, k, acc, order) ==
    IF k > Len(seq) THEN acc
    ELSE StableSortFrom(seq, k + 1, InsertSorted(acc, seq[k], order), order)

StableSort(seq, order) == StableSortFrom(seq, 1, <<>>, order)

\* seq[::-1]
Reverse(seq) == [k \in 1..Len(seq) |-> seq[Len(seq) + 1 - k]]

\* mutant: a descending sort that puts the later of two equal scores first
SortByScoreTiesReversed(seq) == StableSort(Reverse(seq), "score_desc")

\* enriched_scenes.sort(key=lambda x: x['highlight_score'], reverse=True)
SortByScore(seq) == StableSort(seq, "score_desc")

\* mutant: the chronological sort left out
KeepAcceptanceOrder(seq) == seq

\* selected_scenes.sort(key=lambda x: x['start_time'])
SortByStartTime(seq) == StableSort(seq, "start_time")

\* for i, scene in enumerate(selected_scenes, start=1): scene['selected_id'] = i
AssignSelectedIds(seq) == [k \in 1..Len(seq) |-> With(seq[k], "selected_id", k)]

\* mutant: nothing is added once a scene has been accepted
FitsBudgetOnce(total, scene, target) ==
    Num(total) = 0 /\ RLe(RAdd(total, scene.duration), target)

\* mutant: the best scene is taken whatever its length
FitsOrFirst(total, scene, target) ==
    Num(total) = 0 \/ RLe(RAdd(total, scene.duration), target)

\* mutant: the running total left out of the test
FitsAlone(total, scene, target) == RLe(scene.duration, target)

\* mutant: < in place of <=
FitsBudgetStrict(total, scene, target) == RLt(RAdd(total, scene.duration), target)

\* total_duration + scene['duration'] <= target_duration
FitsBudget(total, scene, target) == RLe(RAdd(total, scene.duration), target)

\* mutant: the scan stops only when the budget is used up
ReachedFullTarget(total, target) == RLe(target, total)

\* total_duration >= target_duration * 0.95
ReachedTarget(total, target) == RLe(RMul(target, Q(95, 100)), total)

(***************************************************************************)
(* KeyframeExtractor: frames, quality, hash, sampling.                     *)
(***************************************************************************)

\* cap.read() gave no frame (ret is False)
NoFrame == [ret |-> FALSE]

\* cap.set(CAP_PROP_POS_FRAMES, frame_number); cap.read() on a video that
\* repeats: the frame (or the read failure) at position frame_number
ReadFrame(video, frame_number) == video[frame_number % Cardinality(DOMAIN video)]

\* _evaluate_frame_quality: a score in [0, 1] that depends on the frame alone
EvaluateFrameQuality(frame) == frame.quality

HexDigits == <<"0", "1", "2", "3", "4", "5", "6", "7", "8", "9", "a", "b", "c", "d", "e", "f">>

\* format(n, '0<width>x')
RECURSIVE FormatHex(_, _)
FormatHex(n, width) ==
    IF width = 0 THEN <<>>
    ELSE FormatHex(n \div 16, width - 1) \o <<HexDigits[(n % 16) + 1]>>

\* int(bits, 2)
RECURSIVE BitsToInt(_)
BitsToInt(bits) ==
    IF Len(bits) = 0 THEN 0
    ELSE 2 * BitsToInt(SubSeq(bits, 1, Len(bits) - 1)) + bits[Len(bits)]

RECURSIVE SumInt(_)
SumInt(seq) == IF Len(seq) = 0 THEN 0 ELSE seq[1] + SumInt(Tail(seq))

HashWidth == 16

\* _calculate_image_hash on the gray pixels of the downscaled frame: one bit
\* per pixel, set when the pixel exceeds the mean, written as 16 hex digits
CalculateImageHash(frame) ==
    LET gray == frame.gray
        avg  == Q(SumInt(gray), Len(gray))
        bits == [k \in 1..Len(gray) |-> IF RLt(avg, I(gray[k])) THEN 1 ELSE 0]
    IN  FormatHex(BitsToInt(bits), HashWidth)

\* mutant: the intervals of the low and the high mode exchanged
ModeIntervalSwapped(mode) ==
    CASE mode = "low"    -> I(1)
      [] mode = "medium" -> I(2)
      [] mode = "high"   -> I(3)
      [] OTHER           -> I(2)

\* self.mode_configs and the custom-mode defaults: interval in seconds
ModeInterval(mode) ==
    CASE mode = "low"    -> I(3)
      [] mode = "medium" -> I(2)
      [] mode = "high"   -> I(1)
      [] OTHER           -> I(2)

\* mutant: the loop runs to the end of the scene whatever the count
RECURSIVE SteppedTimesUncapped(_, _, _, _, _, _)
SteppedTimesUncapped(start_time, duration, interval, max_frames, current_time, sample_times) ==
    IF RLt(current_time, duration)
    THEN SteppedTimesUncapped(start_time, duration, interval, max_frames,
                              RAdd(current_time, interval),
                              Append(sample_times, RAdd(start_time, current_time)))
    ELSE sample_times

\* the while loop of _extract_from_scene
RECURSIVE SteppedTimes(_, _, _, _, _, _)
SteppedTimes(start_time, duration, interval, max_frames, current_time, sample_times) ==
    IF RLt(current_time, duration) /\ Len(sample_times) < max_frames
    THEN SteppedTimes(start_time, duration, interval, max_frames,
                      RAdd(current_time, interval),
                      Append(sample_times, RAdd(start_time, current_time)))
    ELSE sample_times

\* seq[:n] for n >= 0
Prefix(seq, n) == SubSeq(seq, 1, IF n < Len(seq) THEN n ELSE Len(seq))

\* mutant: the three fallback times without the [:max_frames] slice
FallbackUncut(scene, max_frames) ==
    << scene.start_time,
       RAdd(scene.start_time, RDiv(scene.duration, I(2))),
       RSub(scene.end_time, Q(1, 10)) >>

\* [start, start + duration / 2, end - 0.1][:max_frames]
FallbackTimes(scene, max_frames) ==
    Prefix(<< scene.start_time,
              RAdd(scene.start_time, RDiv(scene.duration, I(2))),
              RSub(scene.end_time, Q(1, 10)) >>, max_frames)

\* the stepping loop runs at least once
LoopRuns(scene, max_frames) == RLt(I(0), scene.duration) /\ 0 < max_frames

\* the scene lacks a key that _extract_from_scene reads: KeyError
ExtractFromSceneRaises(scene, mode, max_frames) ==
    \/ ~Has(scene, "start_frame")
    \/ ~Has(scene, "end_frame")
    \/ ~Has(scene, "duration")
    \/ (LoopRuns(scene, max_frames) /\ ~Has(scene, "start_time"))
    \/ /\ ~LoopRuns(scene, max_frames) \/ Has(scene, "start_time")
       /\ Len(IF LoopRuns(scene, max_frames)
              THEN SteppedTimes(scene.start_time, scene.duration, ModeInterval(mode),
                                max_frames, I(0), <<>>)
              ELSE <<>>) < max_frames
       /\ (~Has(scene, "start_time") \/ ~Has(scene, "end_time"))

\* sample_times when the while loop of _extract_from_scene is left
SteppingLoop(scene, mode, max_frames) ==
    IF LoopRuns(scene, max_frames)
    THEN SteppedTimes(scene.start_time, scene.duration,
                      ModeInterval(mode), max_frames, I(0), <<>>)
    ELSE <<>>

\* sample_times of _extract_from_scene
SampleTimes(scene, mode, max_frames) ==
    LET stepped == SteppingLoop(scene, mode, max_frames)
    IN  IF Len(stepped) < max_frames THEN FallbackTimes(scene, max_frames) ELSE stepped

\* int(time_sec * fps)
FrameNumber(time_sec, fps) == RTrunc(RMul(time_sec, I(fps)))

\* mutant: the first frame that cannot be read ends the scene (break)
RECURSIVE ReadUntilFailure(_, _, _, _)
ReadUntilFailure(sample_times, fps, video, k) ==
    IF k > Len(sample_times) THEN <<>>
    ELSE LET time_sec     == sample_times[k]
             frame_number == FrameNumber(time_sec, fps)
             frame        == ReadFrame(video, frame_number)
         IN  IF ~frame.ret THEN <<>>
             ELSE << [time          |-> time_sec,
                      frame_number  |-> frame_number,
                      frame         |-> frame,
                      quality_score |-> EvaluateFrameQuality(frame)] >>
                  \o ReadUntilFailure(sample_times, fps, video, k + 1)

\* the candidates list: one entry per sample time whose frame was read
RECURSIVE ReadCandidates(_, _, _, _)
ReadCandidates(sample_times, fps, video, k) ==
    IF k > Len(sample_times) THEN <<>>
    ELSE LET time_sec     == sample_times[k]
             frame_number == FrameNumber(time_sec, fps)
             frame        == ReadFrame(video, frame_number)
         IN  (IF ~frame.ret THEN <<>>
              ELSE << [time          |-> time_sec,
                       frame_number  |-> frame_number,
                       frame         |-> frame,
                       quality_score |-> EvaluateFrameQuality(frame)] >>)
             \o ReadCandidates(sample_times, fps, video, k + 1)

\* candidates.sort(key=quality_score, reverse=True)
SortByQuality(candidates) == StableSort(candidates, "quality_desc")

\* mutant: the chronological sort left out, the best frame first
KeepQualityOrder(selected) == selected

\* selected.sort(key=time)
SortByTime(selected) == StableSort(selected, "time")

\* scene.get('selected_id') or scene.get('id'): a missing, None or 0
\* selected_id falls through to id
SceneId(scene) ==
    IF Has(scene, "selected_id") /\ scene.selected_id # 0 THEN scene.selected_id
    ELSE IF Has(scene, "id") THEN scene.id
    ELSE 0

\* scene.get('index', scene_id)
SceneIndex(scene) == IF Has(scene, "index") THEN scene.index ELSE SceneId(scene)

\* KeyframeExtractor._extract_from_scene (no output_dir)
ExtractFromScene(video, scene, fps, mode, max_frames) ==
    LET candidates == ReadCandidates(SampleTimes(scene, mode, max_frames), fps, video, 1)
        selected   == SortByTime(Prefix(SortByQuality(candidates), max_frames))
    IN  [idx \in 1..Len(selected) |->
            [scene_id       |-> SceneId(scene),
             scene_index    |-> SceneIndex(scene),
             keyframe_index |-> idx - 1,
             time           |-> selected[idx].time,
             frame_number   |-> selected[idx].frame_number,
             quality_score  |-> selected[idx].quality_score,
             image_hash     |-> CalculateImageHash(selected[idx].frame)]]

\* mutant: the share of the scenes done before this one
ProgressBefore(i, n) == RMul(RDiv(I(i), I(n)), I(100))

\* progress = (i + 1) / len(scenes) * 100
ProgressValue(i, n) == RMul(RDiv(I(i + 1), I(n)), I(100))

\* kf.get('image_hash') is None or '': `not hash_val`
NoHash(kf) == ~Has(kf, "image_hash") \/ kf.image_hash = <<>>

\* the loop of remove_duplicates from position k on
RECURSIVE UniqueFrom(_, _, _, _)
UniqueFrom(keyframes, k, seen_hashes, unique_frames) ==
    IF k > Len(keyframes) THEN unique_frames
    ELSE LET kf == keyframes[k]
         IN  IF NoHash(kf)
             THEN UniqueFrom(keyframes, k + 1, seen_hashes, Append(unique_frames, kf))
             ELSE IF kf.image_hash \notin seen_hashes
             THEN UniqueFrom(keyframes, k + 1, seen_hashes \cup {kf.image_hash},
                             Append(unique_frames, kf))
             ELSE UniqueFrom(keyframes, k + 1, seen_hashes, unique_frames)

\* mutant: the threshold is applied to the share of equal bits. Two of the
\* 64-bit hashes used here differ in at most one bit, so up to a threshold of
\* 63/64 every hashed keyframe after the first is a near duplicate
RemoveNearDuplicates(keyframes, similarity_threshold) ==
    IF Len(keyframes) = 0 THEN keyframes
    ELSE IF RLe(similarity_threshold, Q(63, 64))
    THEN SelectIdx(keyframes,
                   {k \in 1..Len(keyframes) :
                       NoHash(keyframes[k]) \/ \A j \in 1..(k - 1) : NoHash(keyframes[j])},
                   1)
    ELSE UniqueFrom(keyframes, 1, {}, <<>>)

\* mutant: seen_hashes is never filled
RemoveNothing(keyframes, similarity_threshold) == keyframes

\* KeyframeExtractor.remove_duplicates
RemoveDuplicates(keyframes, similarity_threshold) ==
    IF Len(keyframes) = 0 THEN keyframes
    ELSE UniqueFrom(keyframes, 1, {}, <<>>)

(***************************************************************************)
(* State.                                                                  *)
(***************************************************************************)
VARIABLES
    \* HighlightSelector.select_highlights: arguments, position and locals;
    \* calls counts the calls the caller has made with these arguments and
    \* first_result is what the first of them returned
    scenes, subtitles, target_duration,
    pc, idx, enriched_scenes, selected_scenes, total_duration, result,
    calls, first_result,
    \* a direct call of one of the two _calculate_highlight_score methods:
    \* the scene passed, the method, the position, its locals and its result
    sc_scene, sc_mode, sc_pc, sc_locals, sc_score,
    \* KeyframeExtractor.extract: the extractor's configuration, the arguments,
    \* the video behind the decoder, the position and the locals; kf_stepped,
    \* kf_samples and kf_last are sample_times after the while loop, sample_times
    \* after the fallback and the return value of the last _extract_from_scene
    \* call, progress the values given to progress_callback
    kf_mode, kf_max, kf_scenes, kf_video,
    kf_pc, kf_i, cap, all_keyframes, kf_stepped, kf_samples, kf_last, progress,
    \* KeyframeExtractor.remove_duplicates: arguments, position and result
    dd_keyframes, dd_threshold, dd_pc, dd_result,
    \* MultimodalFusion.fuse_multimodal_data: the arguments (fu_scenes and
    \* fu_subtitles are its scenes and subtitles), the position and the locals
    fu_scenes, vision_results, ocr_results, face_results, fu_subtitles,
    fu_pc, fu_i, fused_scenes,
    \* the keyframe and analysis steps of the GUI pipeline: the scenes
    \* select_highlights returned, the video, the keyframes extract returned,
    \* the position, and the (scene, scene_keyframes) pairs that
    \* ScriptAnalyzer.analyze_scenes handed to _analyze_single_scene
    an_scenes, an_video, an_keyframes, an_pc, an_idx, an_attached

selVars == <<scenes, subtitles, target_duration,
             pc, idx, enriched_scenes, selected_scenes, total_duration, result,
             calls, first_result>>

scoreVars == <<sc_scene, sc_mode, sc_pc, sc_locals, sc_score>>

kfVars == <<kf_mode, kf_max, kf_scenes, kf_video,
            kf_pc, kf_i, cap, all_keyframes, kf_stepped, kf_samples, kf_last, progress>>

ddVars == <<dd_keyframes, dd_threshold, dd_pc, dd_result>>

fuVars == <<fu_scenes, vision_results, ocr_results, face_results, fu_subtitles,
            fu_pc, fu_i, fused_scenes>>

anVars == <<an_scenes, an_video, an_keyframes, an_pc, an_idx, an_attached>>

vars == <<selVars, scoreVars, kfVars, ddVars, fuVars, anVars>>

\* what a step of select_highlights leaves alone
notSelVars == <<scoreVars, kfVars, ddVars, fuVars, anVars>>

\* what a scorer call leaves alone
notScoreVars == <<selVars, kfVars, ddVars, fuVars, anVars>>

\* what a step of extract leaves alone
notKfVars == <<selVars, scoreVars, ddVars, fuVars, anVars>>

\* what remove_duplicates leaves alone
notDdVars == <<selVars, scoreVars, kfVars, fuVars, anVars>>

\* what a step of fuse_multimodal_data leaves alone
notFuVars == <<selVars, scoreVars, kfVars, ddVars, anVars>>

\* what the keyframe and analysis steps of the pipeline leave alone
notAnVars == <<selVars, scoreVars, kfVars, ddVars, fuVars>>

\* the pipeline is not running
AnIdle ==
    /\ an_scenes = <<>>
    /\ an_video = <<>>
    /\ an_keyframes = <<>>
    /\ an_pc = "idle"
    /\ an_idx = 0
    /\ an_attached = <<>>

\* no fuse_multimodal_data call is in progress
FuIdle ==
    /\ fu_scenes = <<>>
    /\ vision_results = <<>>
    /\ ocr_results = <<>>
    /\ face_results = <<>>
    /\ fu_subtitles = <<>>
    /\ fu_pc = "idle"
    /\ fu_i = 0
    /\ fused_scenes = <<>>

\* no remove_duplicates call is in progress
DdIdle ==
    /\ dd_keyframes = <<>>
    /\ dd_threshold = Q(9, 10)
    /\ dd_pc = "idle"
    /\ dd_result = <<>>

\* no extract call is in progress
KfIdle ==
    /\ kf_mode = "medium"
    /\ kf_max = 0
    /\ kf_scenes = <<>>
    /\ kf_video = <<>>
    /\ kf_pc = "idle"
    /\ kf_i = 0
    /\ cap = "none"
    /\ all_keyframes = <<>>
    /\ kf_stepped = <<>>
    /\ kf_samples = <<>>
    /\ kf_last = <<>>
    /\ progress = <<>>

\* no scorer call is in progress
ScoreIdle ==
    /\ sc_scene = [duration |-> I(0)]
    /\ sc_mode = "none"
    /\ sc_pc = "idle"
    /\ sc_locals = [duration_score |-> I(0)]
    /\ sc_score = I(0)

(***************************************************************************)
(* Inputs of select_highlights.                                            *)
(***************************************************************************)
MaxScenes == 3
MaxSubs == 2
VideoFps == 24

Durations == {I(1), I(8), I(12)}
Targets == {I(8), I(13), I(21)}

\* start of the k-th of consecutive scenes with durations ds
RECURSIVE StartOf(_, _)
StartOf(ds, k) == IF k = 1 THEN I(0) ELSE RAdd(StartOf(ds, k - 1), ds[k - 1])

\* the scene list a detector yields for consecutive shots of durations ds
SceneList(ds) ==
    [k \in 1..Len(ds) |->
        [id          |-> k,
         index       |-> k - 1,
         start_time  |-> StartOf(ds, k),
         end_time    |-> RAdd(StartOf(ds, k), ds[k]),
         duration    |-> ds[k],
         start_frame |-> RTrunc(RMul(StartOf(ds, k), I(VideoFps))),
         end_frame   |-> RTrunc(RMul(RAdd(StartOf(ds, k), ds[k]), I(VideoFps)))]]

\* a dict without one of its keys
Without(d, key) == [k \in (DOMAIN d) \ {key} |-> d[k]]

\* the list with the record at position b (if any) lacking `key`
Malformed(list, b, key) ==
    [k \in 1..Len(list) |-> IF k = b THEN Without(list[k], key) ELSE list[k]]

\* the fields select_highlights reads from a scene and from a subtitle
SceneKeys == {"start_time", "end_time", "duration"}
SubKeys == {"start", "end", "text"}

\* the lists with one record lacking one of `keys`
OneMalformed(lists, keys) ==
    UNION {{Malformed(list, b, key) : b \in 1..Len(list), key \in keys} : list \in lists}

GoodSceneLists == {SceneList(ds) : ds \in SeqsUpTo(Durations, MaxScenes)}

\* scene lists and subtitle lists with one malformed record
BadSceneLists == OneMalformed(GoodSceneLists, SceneKeys)

Sub(s, e, t) == [start |-> s, end |-> e, text |-> t]

SubPool ==
    { Sub(I(0), I(4), Rep("a", 40)),
      Sub(I(6), I(10), Rep("b", 10)),
      Sub(I(13), I(20), Rep("c", 80)) }

SubLists == SeqsUpTo(SubPool, MaxSubs)
BadSubLists == OneMalformed(SubLists, SubKeys)

\* the end-to-end scenario: two scenes, four spans inside the first
ScenarioScenes == SceneList(<<I(8), I(12)>>)
ScenarioSubs ==
    << Sub(I(0), I(2), Rep("a", 20)), Sub(I(2), I(4), Rep("b", 19)),
       Sub(I(4), I(6), Rep("c", 19)), Sub(I(6), I(8), Rep("d", 19)) >>
ScenarioTarget == I(8)

\* the scenario's scenes as fuse_multimodal_data returns them for one analysed
\* frame, one OCR text and one face in the first scene: with visual, ocr,
\* faces, dialogue and the multimodal highlight_score
FusedScenes ==
    [k \in 1..Len(ScenarioScenes) |->
        LET scene       == ScenarioScenes[k]
            scene_ocr   == GetDataInRange(<<Ocr(I(4), <<"A">>)>>,
                                          scene.start_time, scene.end_time)
            ocr         == CHOOSE merged \in MergeOcrData(scene_ocr) : TRUE
            fused_scene == FusedScene(scene, <<Vision(I(0), Q(3, 10))>>, ocr,
                                      <<Faces(I(4), 1)>>, ScenarioSubs)
        IN  With(fused_scene, "highlight_score", FusionHighlightScore(fused_scene))]
FusedTarget == I(21)

\* the budget of the calls with a malformed record
BadTarget == I(21)

\* what comes with a malformed record: a malformed scene with at most
\* MaxSubsBesideBadScene subtitles, a malformed subtitle with at most
\* MaxScenesBesideBadSub scenes
MaxSubsBesideBadScene == 1
MaxScenesBesideBadSub == 2
FewSubLists == SeqsUpTo(SubPool, MaxSubsBesideBadScene)
FewSceneLists == {SceneList(ds) : ds \in SeqsUpTo(Durations, MaxScenesBesideBadSub)}

\* well-formed calls under every budget, calls with one malformed record, and
\* the two scenarios
SelectorInputs ==
    (GoodSceneLists \X SubLists \X Targets)
        \cup (BadSceneLists \X FewSubLists \X {BadTarget})
        \cup (FewSceneLists \X BadSubLists \X {BadTarget})
        \cup {<<ScenarioScenes, ScenarioSubs, ScenarioTarget>>,
              <<FusedScenes, ScenarioSubs, FusedTarget>>}

SelInit ==
    /\ \E inp \in SelectorInputs :
          /\ scenes = inp[1]
          /\ subtitles = inp[2]
          /\ target_duration = inp[3]
    /\ pc = "call"
    /\ idx = 0
    /\ enriched_scenes = <<>>
    /\ selected_scenes = <<>>
    /\ total_duration = I(0)
    /\ result = <<>>
    /\ calls = 1
    /\ first_result = <<>>

\* no select_highlights call is in progress
SelIdle ==
    /\ scenes = <<>>
    /\ subtitles = <<>>
    /\ target_duration = I(0)
    /\ pc = "idle"
    /\ idx = 0
    /\ enriched_scenes = <<>>
    /\ selected_scenes = <<>>
    /\ total_duration = I(0)
    /\ result = <<>>
    /\ calls = 0
    /\ first_result = <<>>

(***************************************************************************)
(* HighlightSelector.select_highlights, one step per loop iteration.       *)
(***************************************************************************)

\* if not scenes: return []
SelectStart ==
    /\ pc = "call"
    /\ IF Len(scenes) = 0
       THEN /\ result' = <<>>
            /\ pc' = "done"
            /\ idx' = idx
       ELSE /\ pc' = "enrich"
            /\ idx' = 1
            /\ result' = result
    /\ UNCHANGED <<scenes, subtitles, target_duration,
                   enriched_scenes, selected_scenes, total_duration>>
    /\ UNCHANGED <<calls, first_result>>
    /\ UNCHANGED notSelVars

\* one iteration of `for scene in scenes` with its try/except
EnrichScene ==
    /\ pc = "enrich"
    /\ idx <= Len(scenes)
    /\ LET scene == scenes[idx]
       IN  IF \/ AddDialogueRaises(scene, subtitles)
              \/ CalculateHighlightScoreRaises(AddDialogueToScene(scene, subtitles))
           THEN /\ enriched_scenes' = enriched_scenes
                /\ scenes' = scenes
           ELSE LET scene_with_dialogue == AddDialogueToScene(scene, subtitles)
                    scored == With(scene_with_dialogue, "highlight_score",
                                   CalculateHighlightScore(scene_with_dialogue))
                IN  /\ enriched_scenes' = Append(enriched_scenes, scored)
                    /\ scenes' = [scenes EXCEPT ![idx] = CallerSceneAfter(scene, scored)]
    /\ idx' = idx + 1
    /\ UNCHANGED <<subtitles, target_duration,
                   pc, selected_scenes, total_duration, result>>
    /\ UNCHANGED <<calls, first_result>>
    /\ UNCHANGED notSelVars

\* if not enriched_scenes: return []; else the descending sort
SortScenes ==
    /\ pc = "enrich"
    /\ idx > Len(scenes)
    /\ IF Len(enriched_scenes) = 0
       THEN /\ result' = <<>>
            /\ pc' = "done"
            /\ UNCHANGED <<enriched_scenes, idx>>
       ELSE /\ enriched_scenes' = SortByScore(enriched_scenes)
            /\ pc' = "greedy"
            /\ idx' = 1
            /\ result' = result
    /\ UNCHANGED <<scenes, subtitles, target_duration, selected_scenes, total_duration>>
    /\ UNCHANGED <<calls, first_result>>
    /\ UNCHANGED notSelVars

\* one iteration of `for scene in enriched_scenes`, with the break
GreedyStep ==
    /\ pc = "greedy"
    /\ idx <= Len(enriched_scenes)
    /\ LET scene == enriched_scenes[idx]
           fits  == FitsBudget(total_duration, scene, target_duration)
           total == IF fits THEN RAdd(total_duration, scene.duration) ELSE total_duration
       IN  /\ selected_scenes' = IF fits THEN Append(selected_scenes, scene)
                                 ELSE selected_scenes
           /\ total_duration' = total
           /\ IF ReachedTarget(total, target_duration) \/ idx = Len(enriched_scenes)
              THEN pc' = "finish" /\ idx' = idx
              ELSE pc' = pc /\ idx' = idx + 1
    /\ UNCHANGED <<scenes, subtitles, target_duration, enriched_scenes, result>>
    /\ UNCHANGED <<calls, first_result>>
    /\ UNCHANGED notSelVars

\* the chronological sort, selected_id and the return
SelectFinish ==
    /\ pc = "finish"
    /\ selected_scenes' = AssignSelectedIds(SortByStartTime(selected_scenes))
    /\ result' = selected_scenes'
    /\ pc' = "done"
    /\ UNCHANGED <<scenes, subtitles, target_duration, idx, enriched_scenes, total_duration>>
    /\ UNCHANGED <<calls, first_result>>
    /\ UNCHANGED notSelVars

\* the budget of the calls the caller repeats
RepeatedTarget == I(13)

\* the caller keeps the returned list and calls select_highlights once more
\* with the objects it passed before
SelectAgain ==
    /\ pc = "done"
    /\ calls = 1
    /\ target_duration = RepeatedTarget
    /\ first_result' = result
    /\ calls' = 2
    /\ pc' = "call"
    /\ idx' = 0
    /\ enriched_scenes' = <<>>
    /\ selected_scenes' = <<>>
    /\ total_duration' = I(0)
    /\ result' = <<>>
    /\ UNCHANGED <<scenes, subtitles, target_duration>>
    /\ UNCHANGED notSelVars

SelNext ==
    SelectStart \/ EnrichScene \/ SortScenes \/ GreedyStep \/ SelectFinish \/ SelectAgain

Init == SelInit /\ ScoreIdle /\ KfIdle /\ DdIdle /\ FuIdle /\ AnIdle
Next == SelNext
Spec == Init /\ [][Next]_vars

(***************************************************************************)
(* Properties of select_highlights.                                        *)
(***************************************************************************)
Durs(seq) == [k \in 1..Len(seq) |-> seq[k].duration]

\* select_highlights has returned `result`
Returned == pc = "done"

\* C1: budget invariant. At every step of the greedy loop the running total is
\* the sum of the durations accepted so far and does not exceed
\* target_duration; the durations of the returned scenes sum to at most
\* target_duration.
C1_BudgetInvariant ==
    /\ RLe(total_duration, target_duration)
    /\ SumQ(Durs(selected_scenes)) = total_duration
    /\ Returned => RLe(SumQ(Durs(result)), target_duration)

\* two scenes were accepted, one after another, and a scored scene was left out
C1_Witness ==
    /\ pc = "done"
    /\ Returned
    /\ Len(result) >= 2
    /\ Len(result) < Len(enriched_scenes)
    /\ SumQ(Durs(result)) = target_duration

\* C2: chronological invariant. The returned list is strictly increasing in
\* start_time and its k-th scene carries selected_id = k.
C2_Chronological ==
    Returned =>
        \A k \in 1..Len(result) :
            /\ Has(result[k], "selected_id")
            /\ result[k].selected_id = k
            /\ k < Len(result) => RLt(result[k].start_time, result[k + 1].start_time)

\* the scenes were accepted in an order (by score) that is not chronological
C2_Witness ==
    /\ pc = "done"
    /\ Returned
    /\ Len(result) >= 2
    /\ \E a, b \in 1..Len(enriched_scenes) :
          /\ a < b
          /\ RLt(enriched_scenes[b].start_time, enriched_scenes[a].start_time)
          /\ \E x, y \in 1..Len(result) :
                /\ result[x].id = enriched_scenes[b].id
                /\ result[y].id = enriched_scenes[a].id

InScenario ==
    /\ scenes = ScenarioScenes
    /\ subtitles = ScenarioSubs
    /\ target_duration = ScenarioTarget

\* C6: end-to-end selection. In the scenario (scene 1 of 8 s with four spans
\* joined to 80 characters, scene 2 of 12 s without dialogue, target 8) the call
\* returns scene 1 alone, with selected_id 1, and the durations sum to 8.
C6_EndToEndSelection ==
    (InScenario /\ pc = "done") =>
        /\ Returned
        /\ Len(result) = 1
        /\ result[1].id = 1
        /\ result[1].selected_id = 1
        /\ result[1].subtitle_count = 4
        /\ Len(result[1].dialogue) = 80
        /\ SumQ(Durs(result)) = I(8)
        /\ RLe(SumQ(Durs(result)), target_duration)
        /\ \E k \in 1..Len(enriched_scenes) :
              /\ enriched_scenes[k].id = 2
              /\ enriched_scenes[k].subtitle_count = 0
              /\ enriched_scenes[k].dialogue = <<>>

C6_Witness == InScenario /\ pc = "done" /\ Returned /\ Len(enriched_scenes) = 2

\* the contributions of the three parts to the score of an enriched scene
DialogueContribution(e) == RMul(DialogueScore(Len(e.dialogue), e.duration), Q(4, 10))
SubtitleContribution(e) == RMul(SubtitleScore(e.subtitle_count), Q(3, 10))
DurationContribution(e) == RMul(DurationScore(e.duration), Q(3, 10))

ScenarioScored == InScenario /\ pc \in {"greedy", "finish", "done"} /\ Len(enriched_scenes) = 2

\* C7 as stated: in the scenario scene 1 scores 70 (16 + 24 + 30) and scene 2
\* scores 30.
C7_Original ==
    ScenarioScored =>
        \A k \in 1..2 :
            LET e == enriched_scenes[k]
            IN  /\ e.id = 1 => /\ e.highlight_score = I(70)
                               /\ DialogueContribution(e) = I(16)
                               /\ SubtitleContribution(e) = I(24)
                               /\ DurationContribution(e) = I(30)
                /\ e.id = 2 => e.highlight_score = I(30)

\* C7 (amended): in the scenario scene 1 scores 94 (dialogue contribution 40:
\* 80 characters over 8 s is 10 per second, above the 8 per second that
\* saturates the dialogue score at 100; subtitle 24; duration 30) and scene 2
\* scores 30.
C7_EndToEndScores ==
    ScenarioScored =>
        \A k \in 1..2 :
            LET e == enriched_scenes[k]
            IN  /\ e.id = 1 => /\ e.highlight_score = I(94)
                               /\ DialogueContribution(e) = I(40)
                               /\ SubtitleContribution(e) = I(24)
                               /\ DurationContribution(e) = I(30)
                /\ e.id = 2 => e.highlight_score = I(30)

C7_Witness ==
    /\ ScenarioScored
    /\ enriched_scenes[1].id = 1
    /\ enriched_scenes[2].id = 2
    /\ Len(enriched_scenes[1].dialogue) = 80

\* the overlap rule as the claim words it
ClaimOverlap(sub, s, e) ==
    \/ (RLe(s, sub.start) /\ RLt(sub.start, e))
    \/ (RLt(s, sub.end) /\ RLe(sub.end, e))
    \/ (RLe(sub.start, s) /\ RLe(e, sub.end))

\* each kept text behind one space, in input order
RECURSIVE SpacedTexts(_, _, _)
SpacedTexts(subs, keep, k) ==
    IF k > Len(subs) THEN <<>>
    ELSE IF k \in keep THEN <<" ">> \o subs[k].text \o SpacedTexts(subs, keep, k + 1)
    ELSE SpacedTexts(subs, keep, k + 1)

ClaimDialogue(subs, keep) == IF keep = {} THEN <<>> ELSE Tail(SpacedTexts(subs, keep, 1))

\* C10: subtitle overlap rule. Every enriched scene holds exactly the spans with
\* (s <= start < e) or (s < end <= e) or (start <= s and end >= e): its
\* subtitle_count is their number and its dialogue their texts joined by single
\* spaces in input order.
C10_OverlapRule ==
    \A k \in 1..Len(enriched_scenes) :
        LET e    == enriched_scenes[k]
            keep == {j \in 1..Len(subtitles) :
                        ClaimOverlap(subtitles[j], e.start_time, e.end_time)}
        IN  /\ e.subtitle_count = Cardinality(keep)
            /\ e.dialogue = ClaimDialogue(subtitles, keep)

\* one of two spans straddles the boundary of two adjacent scenes and is
\* counted in both; the other is counted in one of them only
C10_Witness ==
    \E a, b \in 1..Len(enriched_scenes) :
        /\ enriched_scenes[a].end_time = enriched_scenes[b].start_time
        /\ \E j \in 1..Len(subtitles) :
              /\ RLt(subtitles[j].start, enriched_scenes[b].start_time)
              /\ RLt(enriched_scenes[b].start_time, subtitles[j].end)
              /\ enriched_scenes[a].subtitle_count >= 1
              /\ enriched_scenes[b].subtitle_count >= 1
              /\ Len(subtitles) = 2
              /\ enriched_scenes[a].subtitle_count + enriched_scenes[b].subtitle_count = 3

\* the scene is returned with the times it came with
SameTimes(r, scene) ==
    /\ SceneKeys \subseteq DOMAIN scene
    /\ scene.id = r.id
    /\ scene.start_time = r.start_time
    /\ scene.end_time = r.end_time
    /\ scene.duration = r.duration

\* no scene of the input is short enough for the budget
NoSceneFits ==
    \A j \in 1..Len(scenes) :
        Has(scenes[j], "duration") => RLt(target_duration, scenes[j].duration)

\* C12: no truncation and soft failure. select_highlights has no raising exit;
\* every returned scene is at most target_duration long and has the start_time,
\* end_time and duration of the input scene it came from; and when the input is
\* empty or no scene fits the budget the returned list is empty.
C12_NoTruncation ==
    /\ pc \in {"call", "enrich", "greedy", "finish", "done"}
    /\ Returned =>
          /\ \A k \in 1..Len(result) :
                /\ RLe(result[k].duration, target_duration)
                /\ \E j \in 1..Len(scenes) : SameTimes(result[k], scenes[j])
          /\ NoSceneFits => result = <<>>

\* two scored scenes, each longer than the budget: the call went through the
\* greedy loop and returned the empty list
C12_Witness ==
    /\ pc = "done"
    /\ Returned
    /\ Len(scenes) = 2
    /\ Len(enriched_scenes) = 2
    /\ NoSceneFits
    /\ idx = 2
    /\ result = <<>>

\* a scene or a subtitle of the call lacks a field select_highlights requires
MalformedInput ==
    \/ \E j \in 1..Len(scenes) : ~(SceneKeys \subseteq DOMAIN scenes[j])
    \/ \E j \in 1..Len(subtitles) : ~(SubKeys \subseteq DOMAIN subtitles[j])

\* C15 as stated: when a scene lacks start_time, end_time or duration, or a
\* subtitle lacks start, end or text, select_highlights (given scenes to work
\* on) raises and returns no selection.
C15_InputErrorSurfaced == (MalformedInput /\ Len(scenes) > 0) => ~Returned

\* reading the subtitle for a scene from s to e fails: start is always read,
\* end unless the span starts inside the scene, text when the span overlaps
ClaimSubFails(sub, s, e) ==
    \/ "start" \notin DOMAIN sub
    \/ ("end" \notin DOMAIN sub /\ ~(RLe(s, sub.start) /\ RLt(sub.start, e)))
    \/ ("text" \notin DOMAIN sub /\ ClaimOverlap(sub, s, e))

\* enrichment or scoring of the scene raises
ClaimSceneFails(scene) ==
    \/ ~(SceneKeys \subseteq DOMAIN scene)
    \/ \E j \in 1..Len(subtitles) :
          ClaimSubFails(subtitles[j], scene.start_time, scene.end_time)

\* the scenes the enrichment loop has gone through
Visited == IF pc = "call" THEN 0 ELSE IF pc = "enrich" THEN idx - 1 ELSE Len(scenes)

\* C16: skip-and-continue. Of the scenes the enrichment loop has gone through,
\* exactly those whose enrichment and scoring did not raise are in
\* enriched_scenes, whatever failed before or after them, and every scene of
\* enriched_scenes carries a highlight_score, before and after the sort.
C16_SkipAndContinue ==
    LET good == {j \in 1..Visited : ~ClaimSceneFails(scenes[j])}
    IN  /\ Len(enriched_scenes) = Cardinality(good)
        /\ {enriched_scenes[k].id : k \in 1..Len(enriched_scenes)}
              = {scenes[j].id : j \in good}
        /\ \A k \in 1..Len(enriched_scenes) :
              /\ Has(enriched_scenes[k], "highlight_score")
              /\ Has(enriched_scenes[k], "dialogue")
              /\ Has(enriched_scenes[k], "subtitle_count")

\* the second of three scenes raised; the first and the third were scored,
\* sorted and both selected
C16_Witness ==
    /\ pc = "done"
    /\ Len(scenes) = 3
    /\ ClaimSceneFails(scenes[2])
    /\ Len(enriched_scenes) = 2
    /\ Len(result) = 2
    /\ result[1].id = 1
    /\ result[2].id = 3

\* running_total >= 0.95 * target_duration
ClaimStop(total, target) == RLe(RMul(Q(95, 100), target), total)

\* running_total + duration <= target_duration
ClaimFits(total, d, target) == RLe(RAdd(total, d), target)

Ids(seq) == {seq[k].id : k \in 1..Len(seq)}

\* C19: early stop. While the greedy scan goes on the running total is below
\* 0.95 * target_duration and a next scene is examined; the scan ends before
\* the last scene only with the running total at or above 0.95 *
\* target_duration; and no scene ranked after the stop position is selected.
C19_EarlyStop ==
    /\ pc = "greedy" =>
          /\ ~ClaimStop(total_duration, target_duration)
          /\ idx <= Len(enriched_scenes)
          /\ Ids(selected_scenes) \subseteq Ids(SubSeq(enriched_scenes, 1, idx - 1))
    /\ (pc \in {"finish", "done"} /\ Len(enriched_scenes) > 0) =>
          /\ idx < Len(enriched_scenes) => ClaimStop(total_duration, target_duration)
          /\ Ids(selected_scenes) \subseteq Ids(SubSeq(enriched_scenes, 1, idx))

\* the scan stopped after the second of three scenes although the third would
\* still have fitted the budget
C19_Witness ==
    /\ pc = "done"
    /\ Len(enriched_scenes) = 3
    /\ idx = 2
    /\ Len(result) = 2
    /\ RLt(total_duration, target_duration)
    /\ ClaimFits(total_duration, enriched_scenes[3].duration, target_duration)
    /\ enriched_scenes[3].id \notin Ids(result)

\* one turn of the greedy scan: the scene is accepted whole if and only if it
\* fits; a scene that does not fit leaves the selection as it was and the scan
\* goes on to the next scene; the return keeps every accepted scene
GreedyTurn ==
    /\ pc = "greedy" =>
          LET scene == enriched_scenes[idx]
          IN  IF ClaimFits(total_duration, scene.duration, target_duration)
              THEN /\ selected_scenes' = Append(selected_scenes, scene)
                   /\ total_duration' = RAdd(total_duration, scene.duration)
              ELSE /\ selected_scenes' = selected_scenes
                   /\ total_duration' = total_duration
                   /\ idx < Len(enriched_scenes) => (pc' = "greedy" /\ idx' = idx + 1)
    /\ pc = "finish" =>
          /\ Len(result') = Len(selected_scenes)
          /\ Ids(result') = Ids(selected_scenes)

\* C20: greedy skip without early termination. At its turn a scene is selected
\* if and only if running_total + duration <= target_duration; a scene that
\* would overflow is skipped whole, and the scan continues with the
\* lower-ranked scenes, which are still selected when they fit.
C20_GreedySkip == [][GreedyTurn]_vars

\* the best-scored scene was skipped for its length and a scene with a lower
\* score, ranked after it, was selected
C20_Witness ==
    /\ pc = "done"
    /\ \E a, b \in 1..Len(enriched_scenes) :
          /\ a < b
          /\ b <= idx
          /\ RLt(enriched_scenes[b].highlight_score, enriched_scenes[a].highlight_score)
          /\ enriched_scenes[a].id \notin Ids(result)
          /\ enriched_scenes[b].id \in Ids(result)
          /\ RLt(target_duration, RAdd(enriched_scenes[a].duration, enriched_scenes[b].duration))

\* position of an enriched scene in the caller's list
InputPosition(e) == CHOOSE j \in 1..Len(scenes) : scenes[j].id = e.id

\* the ranked list: scores never increase along it, and of two scenes with the
\* same score the one earlier in the caller's list stands first
RankedStable ==
    (pc \in {"greedy", "finish", "done"} /\ Len(enriched_scenes) > 0) =>
        \A a, b \in 1..Len(enriched_scenes) :
            a < b =>
                /\ RLe(enriched_scenes[b].highlight_score, enriched_scenes[a].highlight_score)
                /\ enriched_scenes[a].highlight_score = enriched_scenes[b].highlight_score
                      => InputPosition(enriched_scenes[a]) < InputPosition(enriched_scenes[b])

\* the scan takes the ranked list front to back, one scene per turn, and
\* leaves its order alone
ExaminedInRank ==
    pc = "greedy" =>
        /\ enriched_scenes' = enriched_scenes
        /\ pc' = "greedy" => idx' = idx + 1
        /\ Ids(selected_scenes') \subseteq Ids(selected_scenes) \cup {enriched_scenes[idx].id}

\* C21: stable descending sort. select_highlights examines the scenes in
\* non-increasing highlight_score order, and among scenes with equal scores
\* the one that comes earlier in the input list is examined first.
C21_StableSort == []RankedStable /\ [][ExaminedInRank]_vars

\* two scenes tie on the score, the budget has room for one of them only, and
\* the one earlier in the input list got it
C21_Witness ==
    /\ pc = "done"
    /\ \E a, b \in 1..Len(enriched_scenes) :
          /\ a < b
          /\ enriched_scenes[a].highlight_score = enriched_scenes[b].highlight_score
          /\ InputPosition(enriched_scenes[a]) < InputPosition(enriched_scenes[b])
          /\ enriched_scenes[a].id \in Ids(result)
          /\ enriched_scenes[b].id \notin Ids(result)
          /\ ClaimFits(I(0), enriched_scenes[b].duration, target_duration)

AddedKeys == {"dialogue", "subtitle_count", "highlight_score", "selected_id"}

\* the caller's list and records are what they were, the keys the call
\* computes are on the returned records, which otherwise equal the caller's
\* record of the same id, and a second call returned what the first returned
InputsAsPassed ==
    /\ Returned =>
          \A k \in 1..Len(result) :
              LET given == scenes[InputPosition(result[k])]
              IN  /\ AddedKeys \subseteq DOMAIN result[k]
                  /\ \A key \in (DOMAIN given) \ AddedKeys : result[k][key] = given[key]
    /\ (Returned /\ calls = 2) => result = first_result

InputsKept ==
    /\ scenes' = scenes
    /\ subtitles' = subtitles
    /\ target_duration' = target_duration

\* C26: inputs left unchanged. select_highlights does not reorder, shorten or
\* extend the caller's scenes list and adds or changes no key of an input
\* record: dialogue, subtitle_count, highlight_score and selected_id are on the
\* returned copies; a second call with the same inputs returns an equal result.
C26_InputsUnchanged == []InputsAsPassed /\ [][InputsKept]_vars

\* a second call has returned the two scenes the first call returned, with the
\* four keys on them, and the caller's records carry none of the four
C26_Witness ==
    /\ Returned
    /\ calls = 2
    /\ Len(result) = 2
    /\ result = first_result
    /\ \A j \in 1..Len(scenes) : (DOMAIN scenes[j]) \cap AddedKeys = {}
    /\ \A k \in 1..Len(result) : AddedKeys \subseteq DOMAIN result[k]

\* the scene carries visual, ocr and faces, each of them with data
MultimodalPopulated(e) ==
    /\ {"visual", "ocr", "faces"} \subseteq DOMAIN e
    /\ DOMAIN e.visual # {}
    /\ Len(e.ocr.texts) > 0
    /\ Len(e.faces) > 0

(***************************************************************************)
(* The two scorers called on their own.                                    *)
(***************************************************************************)
ScoreDurations ==
    {I(0), Q(1, 2), I(2), I(3), I(8), I(10), I(12), I(20), I(30), I(35), I(40)}
ScoreDialogueLens == {0, 1, 40, 80, 100}
ScoreSubtitleCounts == {0, 1, 4, 6}
ScoreVisuals == {<<>>} \cup {[motion_score |-> m] : m \in {I(0), Q(3, 10), I(1)}}
ScoreFaceCounts == {0, 1, 4}
ScoreOcrCounts == {0, 2, 6}

\* scenes as fuse_multimodal_data and _add_dialogue_to_scene build them
ScoreScenes ==
    {[duration       |-> d,
      dialogue       |-> Rep("x", n),
      subtitle_count |-> c,
      visual         |-> v,
      faces          |-> [j \in 1..f |-> [name |-> "face"]],
      ocr            |-> [texts |-> [j \in 1..o |-> <<"t", j>>]]] :
        d \in ScoreDurations, n \in ScoreDialogueLens, c \in ScoreSubtitleCounts,
        v \in ScoreVisuals, f \in ScoreFaceCounts, o \in ScoreOcrCounts}

ScoreInit ==
    /\ sc_scene \in ScoreScenes
    /\ sc_mode = "none"
    /\ sc_pc = "call"
    /\ sc_locals = [duration_score |-> I(0)]
    /\ sc_score = I(0)

\* HighlightSelector._calculate_highlight_score(scene)
ScoreDialogueOnly ==
    /\ sc_pc = "call"
    /\ sc_mode' = "dialogue_only"
    /\ IF CalculateHighlightScoreRaises(sc_scene)
       THEN sc_pc' = "raised" /\ UNCHANGED <<sc_locals, sc_score>>
       ELSE /\ sc_locals' = SelectorLocals(sc_scene)
            /\ sc_score' = CalculateHighlightScore(sc_scene)
            /\ sc_pc' = "done"
    /\ UNCHANGED sc_scene
    /\ UNCHANGED notScoreVars

\* MultimodalFusion._calculate_highlight_score(scene)
ScoreMultimodal ==
    /\ sc_pc = "call"
    /\ sc_mode' = "multimodal"
    /\ IF FusionScoreRaises(sc_scene)
       THEN sc_pc' = "raised" /\ UNCHANGED <<sc_locals, sc_score>>
       ELSE /\ sc_locals' = FusionLocals(sc_scene)
            /\ sc_score' = FusionHighlightScore(sc_scene)
            /\ sc_pc' = "done"
    /\ UNCHANGED sc_scene
    /\ UNCHANGED notScoreVars

ScoreNext == ScoreDialogueOnly \/ ScoreMultimodal

InitScore == ScoreInit /\ SelIdle /\ KfIdle /\ DdIdle /\ FuIdle /\ AnIdle
SpecScore == InitScore /\ [][ScoreNext]_vars

(***************************************************************************)
(* KeyframeExtractor.extract, one step per scene.                          *)
(***************************************************************************)
MaxKfScenes == 2
MaxFramesPerScene == 3

\* a shot shorter than 0.1 s and one of 3 s, a whole number of sampling steps
KfDurations == {Q(1, 20), I(3)}
GoodKfSceneLists == {SceneList(ds) : ds \in SeqsUpTo(KfDurations, MaxKfScenes)}

\* two shots of 3 s, one of them lacking a field _extract_from_scene reads
KfKeys == {"start_frame", "duration"}
BadKfSceneLists == OneMalformed({SceneList(<<I(3), I(3)>>)}, KfKeys)

KfSceneLists == GoodKfSceneLists \cup BadKfSceneLists
Modes == {"low", "medium", "high", "custom"}

\* two frames that differ in content, quality and hash
FrameA == [ret |-> TRUE, gray |-> <<0, 0, 9, 9>>, quality |-> Q(8, 10)]
FrameB == [ret |-> TRUE, gray |-> <<9, 9, 0, 0>>, quality |-> Q(5, 10)]

\* a file the decoder cannot open
NoVideo == <<>>

\* videos of five frames played in a loop, each frame readable or not, and a
\* file that cannot be opened
Videos == [0..4 -> {NoFrame, FrameA, FrameB}] \cup {NoVideo}

KfInit ==
    /\ kf_mode \in Modes
    /\ kf_max \in 1..MaxFramesPerScene
    /\ kf_scenes \in KfSceneLists
    /\ kf_video \in Videos
    /\ kf_pc = "call"
    /\ kf_i = 0
    /\ cap = "none"
    /\ all_keyframes = <<>>
    /\ kf_stepped = <<>>
    /\ kf_samples = <<>>
    /\ kf_last = <<>>
    /\ progress = <<>>

\* cap = cv2.VideoCapture(video_path); if not cap.isOpened(): raise
ExtractOpen ==
    /\ kf_pc = "call"
    /\ IF DOMAIN kf_video # {}
       THEN cap' = "open" /\ kf_pc' = "loop" /\ kf_i' = 1
       ELSE cap' = "unopened" /\ kf_pc' = "raised" /\ kf_i' = kf_i
    /\ UNCHANGED <<kf_mode, kf_max, kf_scenes, kf_video,
                   all_keyframes, kf_stepped, kf_samples, kf_last, progress>>
    /\ UNCHANGED notKfVars

\* one iteration of `for i, scene in enumerate(scenes)`; a KeyError leaves the
\* loop through `except Exception`, which raises KeyframeExtractionError
ExtractScene ==
    /\ kf_pc = "loop"
    /\ kf_i <= Len(kf_scenes)
    /\ LET scene == kf_scenes[kf_i]
       IN  IF ExtractFromSceneRaises(scene, kf_mode, kf_max)
           THEN /\ kf_pc' = "raised"
                /\ UNCHANGED <<kf_i, all_keyframes, kf_stepped, kf_samples, kf_last, progress>>
           ELSE LET keyframes == ExtractFromScene(kf_video, scene, VideoFps, kf_mode, kf_max)
                IN  /\ kf_stepped' = SteppingLoop(scene, kf_mode, kf_max)
                    /\ kf_samples' = SampleTimes(scene, kf_mode, kf_max)
                    /\ kf_last' = keyframes
                    /\ all_keyframes' = all_keyframes \o keyframes
                    /\ progress' = Append(progress,
                                          ProgressValue(kf_i - 1, Len(kf_scenes)))
                    /\ kf_i' = kf_i + 1
                    /\ kf_pc' = kf_pc
    /\ UNCHANGED <<kf_mode, kf_max, kf_scenes, kf_video, cap>>
    /\ UNCHANGED notKfVars

\* cap.release(); return all_keyframes
ExtractReturn ==
    /\ kf_pc = "loop"
    /\ kf_i > Len(kf_scenes)
    /\ cap' = "released"
    /\ kf_pc' = "done"
    /\ UNCHANGED <<kf_mode, kf_max, kf_scenes, kf_video,
                   kf_i, all_keyframes, kf_stepped, kf_samples, kf_last, progress>>
    /\ UNCHANGED notKfVars

KfNext == ExtractOpen \/ ExtractScene \/ ExtractReturn

InitExtract == KfInit /\ SelIdle /\ ScoreIdle /\ DdIdle /\ FuIdle /\ AnIdle
SpecExtract == InitExtract /\ [][KfNext]_vars

(***************************************************************************)
(* KeyframeExtractor.remove_duplicates called on a keyframe list.          *)
(***************************************************************************)
MaxKeyframes == 4

\* the image_hash of a keyframe: two hashes one bit apart, or the empty string
HashChoice(c) ==
    CASE c = 1 -> FormatHex(3, HashWidth)
      [] c = 2 -> FormatHex(2, HashWidth)
      [] OTHER -> <<>>

\* a keyframe list; choice 4 is a keyframe without the image_hash key
KeyframeList(cs) ==
    [k \in 1..Len(cs) |->
        IF cs[k] = 4
        THEN [keyframe_index |-> k - 1, time |-> I(k)]
        ELSE [keyframe_index |-> k - 1, time |-> I(k), image_hash |-> HashChoice(cs[k])]]

\* similarity_threshold: the default 0.9, a lower value and the two extremes
Thresholds == {I(0), Q(5, 10), Q(9, 10), I(1)}

DdInit ==
    /\ dd_keyframes \in {KeyframeList(cs) : cs \in SeqsUpTo(1..4, MaxKeyframes)}
    /\ dd_threshold \in Thresholds
    /\ dd_pc = "call"
    /\ dd_result = <<>>

\* remove_duplicates(keyframes, similarity_threshold)
DedupCall ==
    /\ dd_pc = "call"
    /\ dd_result' = RemoveDuplicates(dd_keyframes, dd_threshold)
    /\ dd_pc' = "done"
    /\ UNCHANGED <<dd_keyframes, dd_threshold>>
    /\ UNCHANGED notDdVars

DdNext == DedupCall

InitDedup == DdInit /\ SelIdle /\ ScoreIdle /\ KfIdle /\ FuIdle /\ AnIdle
SpecDedup == InitDedup /\ [][DdNext]_vars

(***************************************************************************)
(* MultimodalFusion.fuse_multimodal_data, one step per scene.              *)
(***************************************************************************)
MaxFuScenes == 2
MaxSignals == 2

\* a zero-length shot and one of 8 s
FuDurations == {I(0), I(8)}
FuSceneLists == {SceneList(ds) : ds \in SeqsUpTo(FuDurations, MaxFuScenes)}

\* analysed frames: one at the start, one on the boundary at 8 s
VisionPool == {Vision(I(0), Q(3, 10)), Vision(I(8), I(1))}

OcrLists ==
    { <<>>, <<Ocr(I(4), <<"A">>)>>, <<Ocr(I(4), <<"A", "B">>), Ocr(I(8), <<"A">>)>> }

\* face detections: inside the first shot, on the boundary at 8 s, and at 20 s,
\* after the last shot
FaceLists ==
    { <<>>, <<Faces(I(4), 1)>>, <<Faces(I(8), 2), Faces(I(4), 1)>>,
      <<Faces(I(20), 3), Faces(I(8), 2)>> }

FuInit ==
    /\ fu_scenes \in FuSceneLists
    /\ vision_results \in SeqsUpTo(VisionPool, MaxSignals)
    /\ ocr_results \in OcrLists
    /\ face_results \in FaceLists
    /\ fu_subtitles \in SubLists
    /\ fu_pc = "loop"
    /\ fu_i = 1
    /\ fused_scenes = <<>>

\* one iteration of `for scene in scenes`; nothing catches the
\* ZeroDivisionError of the scorer
FuseScene ==
    /\ fu_pc = "loop"
    /\ fu_i <= Len(fu_scenes)
    /\ LET scene == fu_scenes[fu_i]
           scene_ocr == GetDataInRange(ocr_results, scene.start_time, scene.end_time)
       IN  \E ocr \in MergeOcrData(scene_ocr) :
              LET fused_scene == FusedScene(scene, vision_results, ocr, face_results,
                                            fu_subtitles)
              IN  IF FusionScoreRaises(fused_scene)
                  THEN /\ fu_pc' = "raised"
                       /\ UNCHANGED <<fu_i, fused_scenes>>
                  ELSE /\ fused_scenes' =
                              Append(fused_scenes,
                                     With(fused_scene, "highlight_score",
                                          FusionHighlightScore(fused_scene)))
                       /\ fu_i' = fu_i + 1
                       /\ fu_pc' = fu_pc
    /\ UNCHANGED <<fu_scenes, vision_results, ocr_results, face_results, fu_subtitles>>
    /\ UNCHANGED notFuVars

\* return fused_scenes
FuseReturn ==
    /\ fu_pc = "loop"
    /\ fu_i > Len(fu_scenes)
    /\ fu_pc' = "done"
    /\ UNCHANGED <<fu_scenes, vision_results, ocr_results, face_results, fu_subtitles,
                   fu_i, fused_scenes>>
    /\ UNCHANGED notFuVars

FuNext == FuseScene \/ FuseReturn

InitFuse == FuInit /\ SelIdle /\ ScoreIdle /\ KfIdle /\ DdIdle /\ AnIdle
SpecFuse == InitFuse /\ [][FuNext]_vars

(***************************************************************************)
(* The pipeline of the main window after select_highlights:                *)
(* KeyframeExtractor().extract(video, selected_scenes), then               *)
(* ScriptAnalyzer.analyze_scenes(selected_scenes, selected_keyframes),     *)
(* one step per scene.                                                     *)
(***************************************************************************)
MaxAnScenes == 3

\* KeyframeExtractor(): mode 'medium', max_frames_per_scene 3
DefaultMode == "medium"
DefaultMaxFrames == 3

\* the detected shots, 3 s each
AnDurations == {I(3)}

\* the scenes as the enrichment loop leaves them when there are no subtitles
Enriched(list) ==
    [k \in 1..Len(list) |->
        LET scene_with_dialogue == AddDialogueToScene(list[k], <<>>)
        IN  With(scene_with_dialogue, "highlight_score",
                 CalculateHighlightScore(scene_with_dialogue))]

\* what select_highlights can return for the detected shots: any of them, in
\* chronological order, numbered 1..N by selected_id
SelectedLists ==
    UNION {{AssignSelectedIds(SortByStartTime(SelectIdx(Enriched(SceneList(ds)), keep, 1))) :
                keep \in SUBSET (1..Len(ds))} :
            ds \in SeqsUpTo(AnDurations, MaxAnScenes)}

\* the loop of KeyframeExtractor.extract over well-formed scenes
RECURSIVE ExtractAll(_, _, _, _, _)
ExtractAll(video, scene_list, mode, max_frames, k) ==
    IF k > Len(scene_list) THEN <<>>
    ELSE ExtractFromScene(video, scene_list[k], VideoFps, mode, max_frames)
         \o ExtractAll(video, scene_list, mode, max_frames, k + 1)

\* analyze_scenes: scene_keyframes of the scene at position i (from 0): the
\* keyframes whose scene_id is the scene's selected_id (or id) or the scene's
\* id; if there is none, the keyframe at position i of the list
SceneKeyframes(scene, i, keyframes) ==
    LET scene_id == SceneId(scene)
        matched  == SelectIdx(keyframes,
                              {k \in 1..Len(keyframes) :
                                  \/ keyframes[k].scene_id = scene_id
                                  \/ Has(scene, "id") /\ keyframes[k].scene_id = scene.id},
                              1)
    IN  IF Len(matched) = 0 /\ i < Len(keyframes)
        THEN <<keyframes[i + 1]>>
        ELSE matched

AnInit ==
    /\ an_scenes \in SelectedLists
    /\ an_video \in Videos
    /\ an_keyframes = <<>>
    /\ an_pc = "extract"
    /\ an_idx = 0
    /\ an_attached = <<>>

\* selected_keyframes = extractor.extract(video_path, selected_scenes, ...)
PipelineExtract ==
    /\ an_pc = "extract"
    /\ IF DOMAIN an_video = {}
       THEN /\ an_pc' = "raised"
            /\ an_keyframes' = an_keyframes
       ELSE /\ an_keyframes' = ExtractAll(an_video, an_scenes, DefaultMode,
                                          DefaultMaxFrames, 1)
            /\ an_pc' = "analyze"
    /\ UNCHANGED <<an_scenes, an_video, an_idx, an_attached>>
    /\ UNCHANGED notAnVars

\* one iteration of `for idx, scene in enumerate(scenes)` of analyze_scenes; a
\* scene without keyframes is skipped
AnalyzeScene ==
    /\ an_pc = "analyze"
    /\ an_idx < Len(an_scenes)
    /\ LET scene == an_scenes[an_idx + 1]
           scene_keyframes == SceneKeyframes(scene, an_idx, an_keyframes)
       IN  an_attached' = IF Len(scene_keyframes) = 0 THEN an_attached
                          ELSE Append(an_attached,
                                      [scene |-> scene, keyframes |-> scene_keyframes])
    /\ an_idx' = an_idx + 1
    /\ UNCHANGED <<an_scenes, an_video, an_keyframes, an_pc>>
    /\ UNCHANGED notAnVars

\* the script is saved and returned
AnalyzeReturn ==
    /\ an_pc = "analyze"
    /\ an_idx >= Len(an_scenes)
    /\ an_pc' = "done"
    /\ UNCHANGED <<an_scenes, an_video, an_keyframes, an_idx, an_attached>>
    /\ UNCHANGED notAnVars

AnNext == PipelineExtract \/ AnalyzeScene \/ AnalyzeReturn

InitAnalyze == AnInit /\ SelIdle /\ ScoreIdle /\ KfIdle /\ DdIdle /\ FuIdle
SpecAnalyze == InitAnalyze /\ [][AnNext]_vars

(***************************************************************************)
(* Properties of the scorers.                                              *)
(***************************************************************************)
IMin(a, b) == IF a < b THEN a ELSE b

\* duration_score as the claims word it, with the falloff coefficient c
ClaimDurationScore(d, c) ==
    IF RLe(I(5), d) /\ RLe(d, I(15)) THEN I(100)
    ELSE IF RLt(d, I(5)) THEN RMul(RDiv(d, I(5)), I(100))
    ELSE RMax(I(0), RSub(I(100), RMul(RSub(d, I(15)), I(c))))

\* min(len(dialogue)/duration/divisor*100, 100)
ClaimDialogueScore(n, d, divisor) ==
    RMin(RMul(RDiv(RDiv(I(n), d), I(divisor)), I(100)), I(100))

\* 0.4*min(len/duration/8*100, 100) + 0.3*min(count*20, 100) + 0.3*duration_score
ClaimDialogueOnlyScore(scene) ==
    RAdd(RAdd(RMul(Q(4, 10), ClaimDialogueScore(Len(scene.dialogue), scene.duration, 8)),
              RMul(Q(3, 10), I(IMin(scene.subtitle_count * 20, 100)))),
         RMul(Q(3, 10), ClaimDurationScore(scene.duration, 3)))

DialogueOnlyDone ==
    sc_pc = "done" /\ sc_mode = "dialogue_only" /\ RLt(I(0), sc_scene.duration)

\* C8 as stated: for duration > 0 the dialogue-only score equals the weighted
\* sum itself.
C8_Original == DialogueOnlyDone => sc_score = ClaimDialogueOnlyScore(sc_scene)

\* C8 (amended): for duration > 0 the dialogue-only score equals the weighted
\* sum rounded to 2 decimals; duration_score is 100, 40, 85, 55 at durations
\* 10, 2, 20, 30, and 80 characters over 10 s give dialogue_score 100, a
\* contribution of 40.
C8_DialogueOnlyScore ==
    DialogueOnlyDone =>
        /\ sc_score = Round2(ClaimDialogueOnlyScore(sc_scene))
        /\ sc_locals.duration_score = ClaimDurationScore(sc_scene.duration, 3)
        /\ sc_scene.duration = I(10) => sc_locals.duration_score = I(100)
        /\ sc_scene.duration = I(2)  => sc_locals.duration_score = I(40)
        /\ sc_scene.duration = I(20) => sc_locals.duration_score = I(85)
        /\ sc_scene.duration = I(30) => sc_locals.duration_score = I(55)
        /\ (sc_scene.duration = I(10) /\ Len(sc_scene.dialogue) = 80) =>
               /\ sc_locals.dialogue_score = I(100)
               /\ RMul(sc_locals.dialogue_score, Q(4, 10)) = I(40)

\* a long scene with dialogue whose weighted sum has more than 2 decimals
C8_Witness ==
    /\ DialogueOnlyDone
    /\ sc_scene.duration = I(30)
    /\ Len(sc_scene.dialogue) = 1
    /\ sc_scene.subtitle_count = 1
    /\ sc_score # ClaimDialogueOnlyScore(sc_scene)

ClaimMotion(scene) ==
    IF Has(scene.visual, "motion_score") THEN scene.visual.motion_score ELSE I(0)

\* 0.3*min(len/duration/10*100, 100) + 0.25*(motion*100) + 0.2*min(faces*30, 100)
\* + 0.15*min(ocr*20, 100) + 0.1*duration_score
ClaimMultimodalScore(scene) ==
    RAdd(RAdd(RAdd(RAdd(
        RMul(Q(3, 10), ClaimDialogueScore(Len(scene.dialogue), scene.duration, 10)),
        RMul(Q(25, 100), RMul(ClaimMotion(scene), I(100)))),
        RMul(Q(2, 10), I(IMin(Len(scene.faces) * 30, 100)))),
        RMul(Q(15, 100), I(IMin(Len(scene.ocr.texts) * 20, 100)))),
        RMul(Q(1, 10), ClaimDurationScore(scene.duration, 5)))

MultimodalDone ==
    sc_pc = "done" /\ sc_mode = "multimodal" /\ RLt(I(0), sc_scene.duration)

C14_ModeSelection ==
    \A k \in 1..Len(enriched_scenes) :
        LET e == enriched_scenes[k]
        IN  e.highlight_score = IF MultimodalPopulated(e)
                                THEN ClaimMultimodalScore(e)
                                ELSE Round2(ClaimDialogueOnlyScore(e))

(***************************************************************************)
(* Properties of the keyframe extractor.                                   *)
(***************************************************************************)

\* C3: keyframe cap. The keyframes _extract_from_scene returns for a scene are
\* at most max_frames_per_scene and ascend in time, in every mode and for
\* every pattern of readable and unreadable frames.
C3_KeyframeCap ==
    /\ Len(kf_last) <= kf_max
    /\ \A k \in 1..Len(kf_last) :
          /\ k < Len(kf_last) => RLe(kf_last[k].time, kf_last[k + 1].time)
          /\ kf_last[k].keyframe_index = k - 1
    /\ kf_pc = "done" =>
          \A i \in 1..Len(kf_scenes) :
              Cardinality({k \in 1..Len(all_keyframes) :
                              all_keyframes[k].scene_id = kf_scenes[i].id}) <= kf_max

\* a scene gave as many keyframes as allowed, one read of it failed or was cut,
\* and a later keyframe has the better quality
C3_Witness ==
    /\ kf_pc \in {"loop", "done"}
    /\ Len(kf_last) >= 2
    /\ Len(kf_last) < Len(kf_samples)
    /\ \E a, b \in 1..Len(kf_last) :
          /\ a < b
          /\ RLt(kf_last[a].quality_score, kf_last[b].quality_score)
          /\ RLt(kf_last[a].time, kf_last[b].time)

\* C5 as stated: no two keyframes of the list extract returns have the same
\* image_hash.
C5_NoSharedHash ==
    kf_pc = "done" =>
        \A a, b \in 1..Len(all_keyframes) :
            a # b => all_keyframes[a].image_hash # all_keyframes[b].image_hash

\* a keyframe carries a usable image_hash
Hashed(kf) == Has(kf, "image_hash") /\ kf.image_hash # <<>>

\* positions of the keyframes that carry a hash and are the first with it
FirstOccurrences(kfs) ==
    {k \in 1..Len(kfs) :
        /\ Hashed(kfs[k])
        /\ \A j \in 1..(k - 1) : Hashed(kfs[j]) => kfs[j].image_hash # kfs[k].image_hash}

\* C4: dedup policy. Of the keyframes that carry an image_hash the result holds
\* exactly the first occurrence of each hash value, in input order; so no two
\* returned keyframes share a hash and every hash of the input has exactly one
\* survivor.
C4_DedupPolicy ==
    dd_pc = "done" =>
        LET hashedOut == {k \in 1..Len(dd_result) : Hashed(dd_result[k])}
        IN  /\ SelectIdx(dd_result, hashedOut, 1)
                 = SelectIdx(dd_keyframes, FirstOccurrences(dd_keyframes), 1)
            /\ \A a, b \in hashedOut :
                  a # b => dd_result[a].image_hash # dd_result[b].image_hash
            /\ \A j \in 1..Len(dd_keyframes) :
                  Hashed(dd_keyframes[j]) =>
                      Cardinality({k \in hashedOut :
                          dd_result[k].image_hash = dd_keyframes[j].image_hash}) = 1

\* the same hash at the first and the last of four keyframes, another hash and
\* a keyframe without hash between them: the last one is dropped
C4_Witness ==
    /\ dd_pc = "done"
    /\ Len(dd_keyframes) = 4
    /\ Hashed(dd_keyframes[1])
    /\ Hashed(dd_keyframes[2])
    /\ ~Hashed(dd_keyframes[3])
    /\ Hashed(dd_keyframes[4])
    /\ dd_keyframes[1].image_hash = dd_keyframes[4].image_hash
    /\ dd_keyframes[1].image_hash # dd_keyframes[2].image_hash
    /\ Len(dd_result) = 3

\* the positions in sample_times whose frame the decoder delivers
Readable(times) ==
    {k \in 1..Len(times) : ReadFrame(kf_video, FrameNumber(times[k], VideoFps)).ret}

\* a scene record lacks a field the extractor reads
KfMalformed == \E j \in 1..Len(kf_scenes) : ~(KfKeys \subseteq DOMAIN kf_scenes[j])

\* C13: decode-failure tolerance. Once the video is open extract has no raising
\* exit, whatever frames fail to decode; each scene is processed in turn; and
\* the keyframes of a scene are exactly its candidate times whose frame could be
\* read (none when every read failed).
C13_DecodeTolerance ==
    /\ kf_pc = "raised" => (kf_video = NoVideo \/ KfMalformed)
    /\ kf_pc \in {"loop", "done"} =>
          /\ Len(progress) = kf_i - 1
          /\ Len(kf_last) = Cardinality(Readable(kf_samples))
          /\ {kf_last[k].time : k \in 1..Len(kf_last)}
                = {kf_samples[j] : j \in Readable(kf_samples)}
    /\ kf_pc = "done" => kf_i = Len(kf_scenes) + 1

\* every read of the first scene failed, the second scene was still sampled,
\* and one of its reads succeeded after an earlier one had failed
C13_Witness ==
    /\ kf_pc = "done"
    /\ Len(kf_scenes) = 2
    /\ \A k \in 1..Len(all_keyframes) : all_keyframes[k].scene_id = 2
    /\ Len(kf_last) >= 1
    /\ \E a, b \in 1..Len(kf_samples) :
          /\ a < b
          /\ a \notin Readable(kf_samples)
          /\ b \in Readable(kf_samples)

\* the values reported so far are (i+1)/n*100 for i = 0, 1, ..., strictly
\* increasing, one per scene done; 100 is the last one
ProgressSoFar ==
    /\ Len(progress) = (IF kf_i = 0 THEN 0 ELSE kf_i - 1)
    /\ \A k \in 1..Len(progress) :
          /\ progress[k] = RMul(Q(k, Len(kf_scenes)), I(100))
          /\ k < Len(progress) => RLt(progress[k], progress[k + 1])
    /\ Len(kf_scenes) = 0 => progress = <<>>
    /\ (kf_pc = "done" /\ Len(kf_scenes) >= 1) =>
          /\ Len(progress) = Len(kf_scenes)
          /\ progress[Len(progress)] = I(100)

\* the callback is invoked once in the iteration that appended a scene's
\* keyframes, and in every such iteration
ProgressStep ==
    /\ progress' # progress =>
          /\ Len(progress') = Len(progress) + 1
          /\ SubSeq(progress', 1, Len(progress)) = progress
          /\ all_keyframes' = all_keyframes \o kf_last'
          /\ kf_i' = kf_i + 1
    /\ (kf_pc = "loop" /\ kf_i' = kf_i + 1) => Len(progress') = Len(progress) + 1

\* C17: progress reporting. Over n >= 1 scenes the callback is invoked exactly
\* once per completed scene, in the iteration that appended the scene's
\* keyframes, with the strictly increasing values (i+1)/n*100, the last of
\* which is 100; with zero scenes it is never invoked.
C17_Progress == []ProgressSoFar /\ [][ProgressStep]_vars

\* two scenes done: 50 was reported after the first, 100 after the second
C17_Witness ==
    /\ kf_pc = "done"
    /\ Len(kf_scenes) = 2
    /\ progress = <<I(50), I(100)>>
    /\ Len(all_keyframes) >= 2

\* a scene has been sampled; LastScene is that scene
Sampled == kf_pc \in {"loop", "done"} /\ kf_i > 1
LastScene == kf_scenes[kf_i - 1]

\* the sampling interval the mode stands for, in seconds
ClaimInterval(mode) ==
    CASE mode = "low"    -> I(3)
      [] mode = "medium" -> I(2)
      [] mode = "high"   -> I(1)
      [] OTHER           -> I(2)

\* start_time + k * interval for k = 0 .. n - 1
ClaimSteps(scene, mode, n) ==
    [j \in 1..n |-> RAdd(scene.start_time, RMul(I(j - 1), ClaimInterval(mode)))]

IMinInt(a, b) == IF a < b THEN a ELSE b

\* C22 as stated: the stepping goes on until max_frames_per_scene candidates
\* exist or the step k * interval exceeds the duration, so a step equal to the
\* duration still gives a candidate.
C22_Original ==
    Sampled =>
        LET within == Cardinality({k \in 0..kf_max :
                          RLe(RMul(I(k), ClaimInterval(kf_mode)), LastScene.duration)})
        IN  kf_stepped = ClaimSteps(LastScene, kf_mode, IMinInt(kf_max, within))

\* C22: candidate stepping. The while loop produces start_time + k * interval
\* for k = 0, 1, 2, ... until max_frames_per_scene candidates exist or the step
\* k * interval reaches or exceeds the duration; the interval is 3 in low, 2 in
\* medium, 1 in high and 2 in any other mode; when the loop produced
\* max_frames_per_scene candidates they are the scene's candidate times.
C22_CandidateStepping ==
    Sampled =>
        LET within == Cardinality({k \in 0..kf_max :
                          RLt(RMul(I(k), ClaimInterval(kf_mode)), LastScene.duration)})
        IN  /\ kf_stepped = ClaimSteps(LastScene, kf_mode, IMinInt(kf_max, within))
            /\ Len(kf_stepped) = kf_max => kf_samples = kf_stepped

\* the loop ended below the cap at a step equal to the duration: no candidate
\* at the end of the scene
C22_Witness ==
    /\ Sampled
    /\ Len(kf_stepped) >= 1
    /\ Len(kf_stepped) < kf_max
    /\ RMul(I(Len(kf_stepped)), ClaimInterval(kf_mode)) = LastScene.duration
    /\ kf_stepped[Len(kf_stepped)] # LastScene.end_time

\* [start_time, start_time + duration / 2, end_time - 0.1]
ClaimFallback(scene) ==
    << scene.start_time,
       RAdd(scene.start_time, RDiv(scene.duration, I(2))),
       RSub(scene.end_time, Q(1, 10)) >>

\* C23: fallback candidates. When the stepping gave fewer than
\* max_frames_per_scene candidates they are discarded and the candidate list is
\* the first max_frames_per_scene entries of [start_time, start_time +
\* duration / 2, end_time - 0.1], min(3, max_frames_per_scene) of them; the
\* candidate count never exceeds max_frames_per_scene.
C23_Fallback ==
    Sampled =>
        /\ Len(kf_stepped) < kf_max =>
              /\ kf_samples = SubSeq(ClaimFallback(LastScene), 1, IMinInt(3, kf_max))
              /\ Len(kf_samples) = IMinInt(3, kf_max)
        /\ Len(kf_samples) <= kf_max

\* the stepping gave two candidates where three were asked for; the second one
\* is not among the three fallback times
C23_Witness ==
    /\ Sampled
    /\ kf_max = 3
    /\ Len(kf_stepped) = 2
    /\ Len(kf_samples) = 3
    /\ \A k \in 1..3 : kf_samples[k] # kf_stepped[2]

\* quality_threshold of the mode
ClaimThreshold(mode) ==
    CASE mode = "low"    -> Q(3, 10)
      [] mode = "medium" -> Q(5, 10)
      [] mode = "high"   -> Q(7, 10)
      [] OTHER           -> Q(5, 10)

\* time and quality of the frame the decoder delivers at a candidate time
ReadAt(t) ==
    LET frame == ReadFrame(kf_video, FrameNumber(t, VideoFps))
    IN  [time |-> t, quality_score |-> frame.quality]

\* C27: quality ranking never excludes a frame. The candidate list has at most
\* max_frames_per_scene entries, and the keyframes of a scene are exactly the
\* candidates whose frame was read, each with its quality_score, whatever that
\* score is.
C27_NoQualityCut ==
    Sampled =>
        /\ Len(kf_samples) <= kf_max
        /\ {[time |-> kf_last[k].time, quality_score |-> kf_last[k].quality_score] :
                k \in 1..Len(kf_last)}
              = {ReadAt(kf_samples[j]) : j \in Readable(kf_samples)}

\* every candidate was read and returned, one of them with a quality below the
\* mode's quality_threshold and below that of another returned frame
C27_Witness ==
    /\ Sampled
    /\ Len(kf_samples) = kf_max
    /\ Len(kf_last) = kf_max
    /\ \E a, b \in 1..Len(kf_last) :
          /\ RLt(kf_last[a].quality_score, ClaimThreshold(kf_mode))
          /\ RLt(kf_last[a].quality_score, kf_last[b].quality_score)

\* C28 as stated: every candidate time of a scene with a positive duration
\* lies in [start_time, end_time).
C28_CandidatesInside ==
    (Sampled /\ RLt(I(0), LastScene.duration)) =>
        \A k \in 1..Len(kf_samples) :
            /\ RLe(LastScene.start_time, kf_samples[k])
            /\ RLt(kf_samples[k], LastScene.end_time)

\* C30 as stated: when extract has returned or raised, the decoder handle it
\* opened has been released.
C30_DecoderReleased == kf_pc \in {"done", "raised"} => cap # "open"

\* C18: similarity_threshold is inert. The list remove_duplicates returned is
\* the one it returns for the same keyframes under every other threshold, and
\* of two keyframes whose hashes differ (here: in one bit) each hash value is
\* still in the result.
C18_ThresholdInert ==
    dd_pc = "done" =>
        /\ \A t \in Thresholds : RemoveDuplicates(dd_keyframes, t) = dd_result
        /\ \A a, b \in 1..Len(dd_keyframes) :
              (/\ Hashed(dd_keyframes[a])
               /\ Hashed(dd_keyframes[b])
               /\ dd_keyframes[a].image_hash # dd_keyframes[b].image_hash) =>
                  \E x, y \in 1..Len(dd_result) :
                      /\ Hashed(dd_result[x])
                      /\ Hashed(dd_result[y])
                      /\ dd_result[x].image_hash = dd_keyframes[a].image_hash
                      /\ dd_result[y].image_hash = dd_keyframes[b].image_hash

\* under the lowest threshold: two hashes one bit apart, the first of them
\* repeated; both hashes are kept and only the exact repeat is dropped
C18_Witness ==
    /\ dd_pc = "done"
    /\ dd_threshold = I(0)
    /\ Len(dd_keyframes) = 3
    /\ \A k \in 1..3 : Hashed(dd_keyframes[k])
    /\ dd_keyframes[1].image_hash # dd_keyframes[2].image_hash
    /\ dd_keyframes[1].image_hash = dd_keyframes[3].image_hash
    /\ dd_result = SubSeq(dd_keyframes, 1, 2)

(***************************************************************************)
(* Properties of the signal aggregator.                                    *)
(***************************************************************************)

\* C11 as stated: the dialogue of every fused scene is the space-joined text,
\* in input order, of all spans that overlap the scene under the
\* any-intersection rule (start in [s,e), or end in (s,e], or span containing
\* [s,e]), spans that overlap the scene only in part included.
C11_FusionOverlap ==
    \A k \in 1..Len(fused_scenes) :
        LET f    == fused_scenes[k]
            keep == {j \in 1..Len(fu_subtitles) :
                        ClaimOverlap(fu_subtitles[j], f.start_time, f.end_time)}
        IN  f.dialogue = ClaimDialogue(fu_subtitles, keep)

\* the items of a signal list whose timestamp lies in the closed interval
ClaimInInterval(data_list, s, e) ==
    SelectIdx(data_list,
              {j \in 1..Len(data_list) :
                  RLe(s, data_list[j].timestamp) /\ RLe(data_list[j].timestamp, e)}, 1)

\* C24: closed-interval signal selection. The visual, ocr and faces entries of
\* every fused scene are merged from exactly the vision, OCR and face items
\* with start_time <= timestamp <= end_time: an item on a boundary shared by
\* two scenes goes into both, an item outside every interval into none.
C24_ClosedInterval ==
    \A k \in 1..Len(fused_scenes) :
        LET f == fused_scenes[k]
            s == f.start_time
            e == f.end_time
        IN  /\ f.visual = MergeVisionData(ClaimInInterval(vision_results, s, e))
            /\ f.ocr \in MergeOcrData(ClaimInInterval(ocr_results, s, e))
            /\ f.faces = MergeFaceData(ClaimInInterval(face_results, s, e))

\* two adjacent scenes fused: the faces detected on their common boundary are
\* in both, the faces detected after the last scene in neither
C24_Witness ==
    /\ fu_pc = "done"
    /\ Len(fused_scenes) = 2
    /\ fused_scenes[1].end_time = fused_scenes[2].start_time
    /\ \E a, b \in 1..Len(face_results) :
          /\ face_results[a].timestamp = fused_scenes[1].end_time
          /\ RLt(fused_scenes[2].end_time, face_results[b].timestamp)
          /\ fused_scenes[1].faces = face_results[a].faces
          /\ fused_scenes[2].faces = face_results[a].faces

\* C25 as stated: a scene whose enrichment or scoring raises is skipped, the
\* call does not raise, and the fused records of the other scenes are
\* returned in input order.
C25_FusionSkipAndContinue ==
    /\ fu_pc # "raised"
    /\ fu_pc = "done" =>
          [k \in 1..Len(fused_scenes) |-> fused_scenes[k].id]
            = LET ok == {j \in 1..Len(fu_scenes) : Num(fu_scenes[j].duration) # 0}
              IN  [k \in 1..Cardinality(ok) |-> SelectIdx(fu_scenes, ok, 1)[k].id]
(***************************************************************************)
(* Properties of the pipeline.                                             *)
(***************************************************************************)

\* C29 as stated: the keyframes analyze_scenes attaches to a scene are exactly
\* the keyframes extract produced from that scene (those whose scene_id is the
\* scene's selected_id), never those of another scene.
C29_KeyframeAssociation ==
    \A k \in 1..Len(an_attached) :
        an_attached[k].keyframes
          = SelectIdx(an_keyframes,
                      {j \in 1..Len(an_keyframes) :
                          an_keyframes[j].scene_id = an_attached[k].scene.selected_id},
                      1)

====
